---------------------------- MODULE Spec2Model ----------------------------
(* A model of the DS1302 three-wire real-time-clock driver.                *)
(*                                                                          *)
(* The driver under study is the 12h/24h variant (ds1302.c with            *)
(* DS1302_HOURS_24H / DS1302_HOURS_12H); the older variants are modelled   *)
(* where a property speaks about them, with a suffix on the name:          *)
(*   _src   the variant whose hours field is a single DS1302_HOURS entry   *)
(*          stored through HOURS_UNIT_MASK,                                 *)
(*   _p3    the variant with literal masks and a 0x70 hours tens mask,     *)
(*   _pins  the variant that takes a pin assignment.                       *)
(*                                                                          *)
(* Layers: the register codec (pure operators), the bus transport as the   *)
(* sequence of GPIO calls each function issues, the device as the chip     *)
(* that watches the three lines, and the public operations as actions.     *)
EXTENDS Integers, Sequences, FiniteSets, TLC

VARIABLES
    lines,      \* levels the driver has put on CE, CLK, IO and IO's direction
    rtc,        \* the device's registers 0..7 (sec, min, hr, date, month, day, year, wp)
    txlog,      \* transactions the device saw during the most recent call
    gpio_calls, \* number of GPIO / delay primitive calls of the most recent call
    call,       \* the most recent public call: its name and arguments
    ret,        \* how it ended: returned a value, or stopped in the fatal path
    out,        \* the caller's datetime aggregate after the call
    pins,       \* pin-assignment variant: its static pins[3][2], a (port, line) per index
    wires,      \* pin-assignment variant: direction and level of every GPIO line
    run,        \* the GPIO calls of the operation looked at call by call, and how many
                \* of them have been made
    tick        \* the device's second rollover during a DS1302_get, if one came: the
                \* registers before it and the number of reads made by then

vars == <<lines, rtc, txlog, gpio_calls, call, ret, out, pins, wires, run, tick>>

Byte == 0..255

-----------------------------------------------------------------------------
(* C integer operators on non-negative ints (uint8_t promoted to int).     *)

RECURSIVE BitAnd(_, _)
BitAnd(a, b) ==
    IF a = 0 \/ b = 0 THEN 0
    ELSE ((a % 2) * (b % 2)) + 2 * BitAnd(a \div 2, b \div 2)

RECURSIVE BitOr(_, _)
BitOr(a, b) ==
    IF a = 0 THEN b
    ELSE IF b = 0 THEN a
    ELSE (IF (a % 2) + (b % 2) > 0 THEN 1 ELSE 0) + 2 * BitOr(a \div 2, b \div 2)

Shl(a, n) == a * (2 ^ n)
Shr(a, n) == a \div (2 ^ n)
U8(a) == a % 256
BoolToInt(b) == IF b THEN 1 ELSE 0

-----------------------------------------------------------------------------
(* Field descriptors and register layout constants.                        *)

DS1302_SECONDS   == 0
DS1302_MINUTES   == 1
DS1302_HOURS_24H == 2
DS1302_HOURS_12H == 3
DS1302_WEEKDAY   == 4
DS1302_DATE      == 5
DS1302_MONTH     == 6
DS1302_YEAR      == 7
DS1302_FORMAT    == 8
DS1302_AM_PM     == 9

READ_SECONDS  == 129
WRITE_SECONDS == 128
READ_MINUTES  == 131
WRITE_MINUTES == 130
READ_HOURS    == 133
WRITE_HOURS   == 132
READ_DATE     == 135
WRITE_DATE    == 134
READ_MONTH    == 137
WRITE_MONTH   == 136
READ_WEEKDAY  == 139
WRITE_WEEKDAY == 138
READ_YEAR     == 141
WRITE_YEAR    == 140
READ_WP       == 143
WRITE_WP      == 142

WRITE_PROTECTION_MASK == 128
HOURS_UNIT_MASK       == 31
WEEKDAY_UNIT_MASK     == 7
OTHER_UNIT_MASK       == 15
SEC_MIN_TENS_MASK     == 112
HOURS_24H_TENS_MASK   == 48
HOURS_12H_TENS_MASK   == 16
DATE_TENS_MASK        == 48
MONTH_TENS_MASK       == 16
YEAR_TENS_MASK        == 240
AM_PM_MASK            == 32
TENS_SHIFT            == 4
FORMAT_SHIFT          == 7
AM_PM_SHIFT           == 5
UNIT_FACTOR           == 1
TENS_FACTOR           == 10
CLK_DELAY             == 2
MSB_SHIFT             == 7
CHAR_BIT              == 8

JANUARY   == 1
FEBRUARY  == 2
MARCH     == 3
APRIL     == 4
MAY       == 5
JUNE      == 6
JULY      == 7
AUGUST    == 8
SEPTEMBER == 9
OCTOBER   == 10
NOVEMBER  == 11
DECEMBER  == 12
DAYS_28   == 28
DAYS_29   == 29
DAYS_30   == 30
DAYS_31   == 31
CENTURY   == 100

\* ranges with the 12-hour minimum taken for that of the 24-hour clock.
ranges_hours_12h_from_zero ==
    (DS1302_SECONDS   :> [min |-> 0, max |-> 59]) @@
    (DS1302_MINUTES   :> [min |-> 0, max |-> 59]) @@
    (DS1302_HOURS_24H :> [min |-> 0, max |-> 23]) @@
    (DS1302_HOURS_12H :> [min |-> 0, max |-> 12]) @@
    (DS1302_WEEKDAY   :> [min |-> 1, max |-> 7]) @@
    (DS1302_DATE      :> [min |-> 1, max |-> 31]) @@
    (DS1302_MONTH     :> [min |-> 1, max |-> 12]) @@
    (DS1302_YEAR      :> [min |-> 0, max |-> 99])

ranges ==
    (DS1302_SECONDS   :> [min |-> 0, max |-> 59]) @@
    (DS1302_MINUTES   :> [min |-> 0, max |-> 59]) @@
    (DS1302_HOURS_24H :> [min |-> 0, max |-> 23]) @@
    (DS1302_HOURS_12H :> [min |-> 1, max |-> 12]) @@
    (DS1302_WEEKDAY   :> [min |-> 1, max |-> 7])  @@
    (DS1302_DATE      :> [min |-> 1, max |-> 31]) @@
    (DS1302_MONTH     :> [min |-> 1, max |-> 12]) @@
    (DS1302_YEAR      :> [min |-> 0, max |-> 99])

-----------------------------------------------------------------------------
(* How a call ends.  ASSERT(false) is the fatal path: the call stops there *)
(* and hands nothing back to its caller.                                   *)

Returned(v) == [fatal |-> FALSE, returned |-> TRUE, value |-> v]
Fatal       == [fatal |-> TRUE, returned |-> FALSE, value |-> 0]
NotCalled   == [fatal |-> FALSE, returned |-> FALSE, value |-> 0]

-----------------------------------------------------------------------------
(* Register codec.                                                         *)

\* is_leap_year without the century rules.
is_leap_year_every_fourth(year) == (year % 4) = 0

is_leap_year(year) ==
    IF (year % 4) # 0 THEN FALSE
    ELSE IF (year % CENTURY) # 0 THEN TRUE
    ELSE IF (year % (4 * CENTURY)) # 0 THEN FALSE
    ELSE TRUE

is_get_range_type_valid(type) ==
    type \in {DS1302_SECONDS, DS1302_MINUTES, DS1302_HOURS_24H, DS1302_HOURS_12H,
              DS1302_WEEKDAY, DS1302_DATE, DS1302_MONTH, DS1302_YEAR}

\* PackBcd without the tens mask.
PackBcd_unmasked(val, tens_mask) ==
    BitOr(Shl(val \div TENS_FACTOR, TENS_SHIFT), val % TENS_FACTOR)

\* PackBcd with the tens digit left where it is instead of shifted up.
PackBcd_unshifted(val, tens_mask) ==
    BitOr(BitAnd(val \div TENS_FACTOR, tens_mask), val % TENS_FACTOR)

\* The packing shared by the two-digit fields: tens digit shifted and masked,
\* or-ed with the units digit.
PackBcd(val, tens_mask) ==
    BitOr(BitAnd(Shl(val \div TENS_FACTOR, TENS_SHIFT), tens_mask), val % TENS_FACTOR)

\* UnpackBcd with the tens digit added in as if it were units.
UnpackBcd_tens_as_units(val, unit_mask, tens_mask) ==
    BitAnd(val, unit_mask) * UNIT_FACTOR + Shr(BitAnd(val, tens_mask), TENS_SHIFT)

UnpackBcd(val, unit_mask, tens_mask) ==
    BitAnd(val, unit_mask) * UNIT_FACTOR
        + Shr(BitAnd(val, tens_mask), TENS_SHIFT) * TENS_FACTOR

get_value_to_store(entry, val) ==
    CASE entry \in {DS1302_SECONDS, DS1302_MINUTES} -> U8(PackBcd(val, SEC_MIN_TENS_MASK))
      [] entry = DS1302_HOURS_24H -> U8(PackBcd(val, HOURS_24H_TENS_MASK))
      [] entry = DS1302_HOURS_12H -> U8(PackBcd(val, HOURS_12H_TENS_MASK))
      [] entry = DS1302_AM_PM     -> U8(Shl(val, AM_PM_SHIFT))
      [] entry = DS1302_FORMAT    -> U8(Shl(val, FORMAT_SHIFT))
      [] entry = DS1302_WEEKDAY   -> BitAnd(val, WEEKDAY_UNIT_MASK)
      [] entry = DS1302_DATE      -> U8(PackBcd(val, DATE_TENS_MASK))
      [] entry = DS1302_MONTH     -> U8(PackBcd(val, MONTH_TENS_MASK))
      [] entry = DS1302_YEAR      -> U8(PackBcd(val, YEAR_TENS_MASK))
      [] OTHER -> 0

get_value_to_load(entry, val) ==
    CASE entry \in {DS1302_SECONDS, DS1302_MINUTES} ->
             U8(UnpackBcd(val, OTHER_UNIT_MASK, SEC_MIN_TENS_MASK))
      [] entry = DS1302_FORMAT    -> Shr(val, FORMAT_SHIFT)
      [] entry = DS1302_AM_PM     -> Shr(BitAnd(val, AM_PM_MASK), AM_PM_SHIFT)
      [] entry = DS1302_HOURS_24H -> U8(UnpackBcd(val, OTHER_UNIT_MASK, HOURS_24H_TENS_MASK))
      [] entry = DS1302_HOURS_12H -> U8(UnpackBcd(val, OTHER_UNIT_MASK, HOURS_12H_TENS_MASK))
      [] entry = DS1302_WEEKDAY   -> BitAnd(val, WEEKDAY_UNIT_MASK) * UNIT_FACTOR
      [] entry = DS1302_DATE      -> U8(UnpackBcd(val, OTHER_UNIT_MASK, DATE_TENS_MASK))
      [] entry = DS1302_MONTH     -> U8(UnpackBcd(val, OTHER_UNIT_MASK, MONTH_TENS_MASK))
      [] entry = DS1302_YEAR      -> U8(UnpackBcd(val, OTHER_UNIT_MASK, YEAR_TENS_MASK))
      [] OTHER -> 0

\* Whether the codec's switch has a case for the entry (its default asserts).
is_codec_entry(entry) == entry \in DS1302_SECONDS..DS1302_AM_PM

DS1302_get_range_minimum(type) ==
    IF ~is_get_range_type_valid(type) THEN Fatal
    ELSE Returned(ranges[type].min)

\* DS1302_get_range_maximum that does not refuse DS1302_DATE.
DS1302_get_range_maximum_date_allowed(type) ==
    IF ~is_get_range_type_valid(type) THEN Fatal
    ELSE Returned(ranges[type].max)

DS1302_get_range_maximum(type) ==
    IF ~is_get_range_type_valid(type) \/ type = DS1302_DATE THEN Fatal
    ELSE Returned(ranges[type].max)

DS1302_get_date_range_maximum(year, month) ==
    LET is_leap == is_leap_year(year)
    IN  CASE month \in {JANUARY, MARCH, MAY, JULY, AUGUST, OCTOBER, DECEMBER} ->
                 Returned(DAYS_31)
          [] month \in {APRIL, JUNE, SEPTEMBER, NOVEMBER} -> Returned(DAYS_30)
          [] month = FEBRUARY -> Returned(IF is_leap THEN DAYS_29 ELSE DAYS_28)
          [] OTHER -> Fatal

-----------------------------------------------------------------------------
(* Bus transport: each function is the sequence of GPIO and delay calls it *)
(* issues, in program order.                                               *)

GPIO_CHANNEL_RTC_CE   == "CE"
GPIO_CHANNEL_RTC_CLK  == "CLK"
GPIO_CHANNEL_RTC_IO   == "IO"
GPIO_OUTPUT_PUSH_PULL == "push_pull"
GPIO_INPUT_FLOATING   == "floating"

GPIO_write_pin(ch, level) ==
    [fn |-> "GPIO_write_pin", ch |-> ch, level |-> level, mode |-> "-", us |-> 0]
GPIO_config_pin(ch, mode) ==
    [fn |-> "GPIO_config_pin", ch |-> ch, level |-> 0, mode |-> mode, us |-> 0]
GPIO_read_pin(ch) ==
    [fn |-> "GPIO_read_pin", ch |-> ch, level |-> 0, mode |-> "-", us |-> 0]
delay_us(n) ==
    [fn |-> "_delay_us", ch |-> "-", level |-> 0, mode |-> "-", us |-> n]

\* stop that leaves the clock where it is.
stop_chip_enable_only ==
    << GPIO_write_pin(GPIO_CHANNEL_RTC_CE, 0) >>

stop ==
    << GPIO_write_pin(GPIO_CHANNEL_RTC_CE, 0),
       GPIO_write_pin(GPIO_CHANNEL_RTC_CLK, 0) >>

reset ==
    stop \o << GPIO_write_pin(GPIO_CHANNEL_RTC_CE, 1) >>

\* One iteration of write_byte's loop on the current value of tmp.
\* write_byte's iteration that lowers the clock before it sets the data line.
write_byte_cell_clock_first(tmp) ==
    << GPIO_write_pin(GPIO_CHANNEL_RTC_CLK, 0),
       GPIO_write_pin(GPIO_CHANNEL_RTC_IO, IF BitAnd(tmp, 1) # 0 THEN 1 ELSE 0),
       delay_us(CLK_DELAY),
       GPIO_write_pin(GPIO_CHANNEL_RTC_CLK, 1),
       delay_us(CLK_DELAY) >>

\* write_byte's iteration presenting the top bit of tmp.
write_byte_cell_top_bit(tmp) ==
    << GPIO_write_pin(GPIO_CHANNEL_RTC_IO, IF BitAnd(tmp, Shl(1, MSB_SHIFT)) # 0 THEN 1 ELSE 0),
       GPIO_write_pin(GPIO_CHANNEL_RTC_CLK, 0),
       delay_us(CLK_DELAY),
       GPIO_write_pin(GPIO_CHANNEL_RTC_CLK, 1),
       delay_us(CLK_DELAY) >>

write_byte_cell(tmp) ==
    << GPIO_write_pin(GPIO_CHANNEL_RTC_IO, IF BitAnd(tmp, 1) # 0 THEN 1 ELSE 0),
       GPIO_write_pin(GPIO_CHANNEL_RTC_CLK, 0),
       delay_us(CLK_DELAY),
       GPIO_write_pin(GPIO_CHANNEL_RTC_CLK, 1),
       delay_us(CLK_DELAY) >>

RECURSIVE write_byte_loop(_, _)
write_byte_loop(tmp, i) ==
    IF i < CHAR_BIT
    THEN write_byte_cell(tmp) \o write_byte_loop(Shr(tmp, 1), i + 1)
    ELSE << >>

\* write_byte that makes the data line an input before it shifts out.
write_byte_as_input(data) ==
    << GPIO_config_pin(GPIO_CHANNEL_RTC_IO, GPIO_INPUT_FLOATING) >>
        \o write_byte_loop(data, 0)

write_byte(data) ==
    << GPIO_config_pin(GPIO_CHANNEL_RTC_IO, GPIO_OUTPUT_PUSH_PULL) >>
        \o write_byte_loop(data, 0)

\* read_byte's iteration that reads the pin between raising and lowering the
\* clock.
read_byte_cell_sample_high ==
    << GPIO_write_pin(GPIO_CHANNEL_RTC_CLK, 1),
       delay_us(CLK_DELAY),
       GPIO_read_pin(GPIO_CHANNEL_RTC_IO),
       GPIO_write_pin(GPIO_CHANNEL_RTC_CLK, 0),
       delay_us(CLK_DELAY) >>

\* One iteration of read_byte's loop: the pin is read after the clock has
\* been raised and lowered again.
read_byte_cell ==
    << GPIO_write_pin(GPIO_CHANNEL_RTC_CLK, 1),
       delay_us(CLK_DELAY),
       GPIO_write_pin(GPIO_CHANNEL_RTC_CLK, 0),
       delay_us(CLK_DELAY),
       GPIO_read_pin(GPIO_CHANNEL_RTC_IO) >>

RECURSIVE read_byte_loop(_)
read_byte_loop(i) ==
    IF i < CHAR_BIT THEN read_byte_cell \o read_byte_loop(i + 1) ELSE << >>

\* read_byte that leaves the data line as write_byte configured it.
read_byte_calls_unconfigured == read_byte_loop(0)

\* The calls read_byte issues.
read_byte_calls ==
    << GPIO_config_pin(GPIO_CHANNEL_RTC_IO, GPIO_INPUT_FLOATING) >> \o read_byte_loop(0)

\* The value read_byte returns when its successive GPIO_read_pin calls
\* return samples[1] .. samples[8].
RECURSIVE read_byte_shift(_, _, _)
read_byte_shift(r, i, samples) ==
    IF i < CHAR_BIT
    THEN read_byte_shift(
             IF samples[i + 1] THEN BitOr(Shr(r, 1), Shl(1, MSB_SHIFT)) ELSE Shr(r, 1),
             i + 1, samples)
    ELSE r

\* read_byte that shifts in seven samples, from the second on.
read_byte_without_first_sample(samples) == read_byte_shift(0, 1, samples)

read_byte(samples) == read_byte_shift(0, 0, samples)

\* start that shifts the command out without the reset before it.
start_without_reset(type) == write_byte(type)

start(type) == reset \o write_byte(type)

write(reg, value) == start(reg) \o write_byte(value) \o stop

\* The calls read(reg) issues; it returns what read_byte returns.
read_calls(reg) == start(reg) \o read_byte_calls \o stop

-----------------------------------------------------------------------------
(* The lines as the driver leaves them, and the device that watches them.  *)
(* The device is the chip of the wire format: a frame lasts while CE is    *)
(* high; it samples IO on each rising clock edge, least-significant bit    *)
(* first; the first eight bits are the command; after a write command the  *)
(* next eight bits are the data byte; after a read command it puts the     *)
(* next data bit on IO at each falling clock edge.                         *)

IdleLines == [ce |-> 0, clk |-> 0, io |-> 0, dir |-> "unconfigured"]

\* The level last written to channel ch by calls[1..k], or dflt.
RECURSIVE LastWrite(_, _, _, _)
LastWrite(calls, k, ch, dflt) ==
    IF k = 0 THEN dflt
    ELSE IF calls[k].fn = "GPIO_write_pin" /\ calls[k].ch = ch THEN calls[k].level
    ELSE LastWrite(calls, k - 1, ch, dflt)

\* The mode last configured on channel ch by calls[1..k], or dflt.
RECURSIVE LastConfig(_, _, _, _)
LastConfig(calls, k, ch, dflt) ==
    IF k = 0 THEN dflt
    ELSE IF calls[k].fn = "GPIO_config_pin" /\ calls[k].ch = ch THEN calls[k].mode
    ELSE LastConfig(calls, k - 1, ch, dflt)

\* The lines after the calls, starting from l0.
LinesAfter(calls, l0) ==
    [ce  |-> LastWrite(calls, Len(calls), GPIO_CHANNEL_RTC_CE, l0.ce),
     clk |-> LastWrite(calls, Len(calls), GPIO_CHANNEL_RTC_CLK, l0.clk),
     io  |-> LastWrite(calls, Len(calls), GPIO_CHANNEL_RTC_IO, l0.io),
     dir |-> LastConfig(calls, Len(calls), GPIO_CHANNEL_RTC_IO, l0.dir)]

\* The calls numbered in program order, so that a selection keeps each call's
\* place in the sequence.
Numbered(calls) == [k \in 1..Len(calls) |-> [at |-> k, c |-> calls[k]]]

\* The writes to channel ch among the calls strictly between s and e, each with
\* the level the channel had before it (l0 for the first, seen from call s).
WritesTo(calls, ch, s, e, l0) ==
    LET w == SelectSeq(Numbered(calls),
                       LAMBDA t : /\ t.at > s
                                  /\ t.at < e
                                  /\ t.c.fn = "GPIO_write_pin"
                                  /\ t.c.ch = ch)
        before == LastWrite(calls, s, ch, l0)
    IN  [j \in 1..Len(w) |->
            [at |-> w[j].at, level |-> w[j].c.level,
             was |-> IF j = 1 THEN before ELSE w[j - 1].c.level]]

\* The calls strictly between s and e that take channel ch from one level to
\* the other, in program order.
Rises(calls, ch, s, e, l0) ==
    SelectSeq(WritesTo(calls, ch, s, e, l0), LAMBDA x : x.level = 1 /\ x.was = 0)

Falls(calls, ch, s, e, l0) ==
    SelectSeq(WritesTo(calls, ch, s, e, l0), LAMBDA x : x.level = 0 /\ x.was = 1)

\* A frame starts at a CE rise and ends at the next CE fall (one past the last
\* call when CE is still high at the end).
FrameEnd(calls, s, l0) ==
    LET f == Falls(calls, GPIO_CHANNEL_RTC_CE, s - 1, Len(calls) + 1, l0.ce)
    IN  IF f = << >> THEN Len(calls) + 1 ELSE f[1].at

\* The bit the device samples at call k: the level the driver holds on IO.
SampledBit(calls, k, l0) == LastWrite(calls, k - 1, GPIO_CHANNEL_RTC_IO, l0.io)

\* The byte shifted in at rising edges number first .. first+7 of R.
RECURSIVE ShiftedIn(_, _, _, _, _)
ShiftedIn(calls, R, first, i, l0) ==
    IF i = CHAR_BIT THEN 0
    ELSE SampledBit(calls, R[first + i].at, l0) * (2 ^ i)
             + ShiftedIn(calls, R, first, i + 1, l0)

\* What the device makes of the frame that starts at call s.
DeviceFrame(calls, s, l0) ==
    LET e == FrameEnd(calls, s, l0)
        R == Rises(calls, GPIO_CHANNEL_RTC_CLK, s, e, l0.clk)
        n == Len(R)
        cmd == IF n >= CHAR_BIT THEN ShiftedIn(calls, R, 1, 0, l0) ELSE 0
        isread == (cmd % 2) = 1
        r8 == IF n >= CHAR_BIT THEN R[CHAR_BIT].at ELSE e
        F == Falls(calls, GPIO_CHANNEL_RTC_CLK, r8, e, l0.clk)
        reads == SelectSeq(Numbered(calls),
                           LAMBDA t : /\ t.at > r8
                                      /\ t.at < e
                                      /\ t.c.fn = "GPIO_read_pin"
                                      /\ t.c.ch = GPIO_CHANNEL_RTC_IO)
    IN  [ kind  |-> IF n < CHAR_BIT THEN "none"
                    ELSE IF isread THEN "read"
                    ELSE IF n >= 2 * CHAR_BIT THEN "write"
                    ELSE "none",
          cmd   |-> cmd,
          data  |-> IF n >= 2 * CHAR_BIT /\ ~isread
                    THEN ShiftedIn(calls, R, CHAR_BIT + 1, 0, l0) ELSE 0,
          rises |-> n,
          falls |-> Len(F),
          \* for each GPIO_read_pin of the frame, in order: the number of the data
          \* bit the device holds on IO at that call (0 = first), or -1 when the
          \* device is not driving or the driver has not made IO an input
          bitno |-> [j \in 1..Len(reads) |->
                       LET k == reads[j].at
                           b == Len(SelectSeq(F, LAMBDA f : f.at < k)) - 1
                       IN  IF isread /\ b \in 0..(CHAR_BIT - 1)
                              /\ LastConfig(calls, k - 1, GPIO_CHANNEL_RTC_IO, l0.dir)
                                     = GPIO_INPUT_FLOATING
                           THEN b ELSE -1] ]

\* The frames of a call sequence, in program order.
DeviceFrames(calls, l0) ==
    LET S == Rises(calls, GPIO_CHANNEL_RTC_CE, 0, Len(calls) + 1, l0.ce)
    IN  [j \in 1..Len(S) |-> DeviceFrame(calls, S[j].at, l0)]

\* A write(reg, value) and a read(reg) as the lines and the device see them:
\* the number of calls, the last level and mode the calls give each line (-1 or
\* "-" for a line they leave alone), and the frames.  Both begin with stop(),
\* which writes CE and CLK before any edge, and both configure and write IO
\* before the first rising clock edge, so the frames do not depend on the levels
\* the call finds.
Untouched == [ce |-> -1, clk |-> -1, io |-> -1, dir |-> "-"]

OnBus(calls) ==
    [n |-> Len(calls), after |-> LinesAfter(calls, Untouched),
     frames |-> DeviceFrames(calls, IdleLines)]

WriteCommands == {WRITE_SECONDS, WRITE_MINUTES, WRITE_HOURS, WRITE_DATE, WRITE_MONTH,
                  WRITE_WEEKDAY, WRITE_YEAR, WRITE_WP}

ReadCommands == {READ_SECONDS, READ_MINUTES, READ_HOURS, READ_DATE, READ_MONTH,
                 READ_WEEKDAY, READ_YEAR, READ_WP}

\* write(reg, value) for each write command and byte, and read(reg) for each
\* read command, worked out once; registers are numbered from the seconds
\* register in steps of two command values.
WriteOnBus ==
    [i \in 0..(8 * 256 - 1) |-> OnBus(write(WRITE_SECONDS + 2 * (i \div 256), i % 256))]

ReadOnBus == [j \in 0..7 |-> OnBus(read_calls(READ_SECONDS + 2 * j))]

WriteSeen(reg, value) == WriteOnBus[((reg - WRITE_SECONDS) \div 2) * 256 + value]

ReadSeen(reg) == ReadOnBus[(reg - READ_SECONDS) \div 2]

-----------------------------------------------------------------------------
(* The device's registers.  The command byte is 1 R/C A4..A0 RD; the       *)
(* calendar registers and the write-protect register are clock addresses   *)
(* 0..7.  A write stores the data byte, unless the top bit of the          *)
(* write-protect register is set and the write is to another register; a   *)
(* read returns the stored byte.                                           *)

DeviceAddress(cmd) == Shr(cmd, 1) % 32

IsClockCommand(cmd) ==
    /\ BitAnd(cmd, 128) # 0
    /\ BitAnd(cmd, 64) = 0
    /\ DeviceAddress(cmd) \in 0..7

WP_ADDRESS == DeviceAddress(WRITE_WP)

DeviceWriteProtected(regs) == BitAnd(regs[WP_ADDRESS], WRITE_PROTECTION_MASK) # 0

DeviceStore(regs, frame) ==
    IF /\ frame.kind = "write"
       /\ IsClockCommand(frame.cmd)
       /\ (~DeviceWriteProtected(regs) \/ DeviceAddress(frame.cmd) = WP_ADDRESS)
    THEN [regs EXCEPT ![DeviceAddress(frame.cmd)] = frame.data]
    ELSE regs

RECURSIVE DeviceStoreAll(_, _, _)
DeviceStoreAll(regs, frames, j) ==
    IF j > Len(frames) THEN regs
    ELSE DeviceStoreAll(DeviceStore(regs, frames[j]), frames, j + 1)

\* The transactions of some frames as the log keeps them; a read carries the
\* byte the device sent.
Transactions(frames, regs) ==
    [j \in 1..Len(frames) |->
        [kind |-> frames[j].kind,
         cmd  |-> frames[j].cmd,
         data |-> IF frames[j].kind = "read" /\ IsClockCommand(frames[j].cmd)
                  THEN regs[DeviceAddress(frames[j].cmd)]
                  ELSE frames[j].data]]

\* The lines after calls whose last writes are `after`.
Merge(l, after) ==
    [ce  |-> IF after.ce = -1 THEN l.ce ELSE after.ce,
     clk |-> IF after.clk = -1 THEN l.clk ELSE after.clk,
     io  |-> IF after.io = -1 THEN l.io ELSE after.io,
     dir |-> IF after.dir = "-" THEN l.dir ELSE after.dir]

\* The bus while a public call runs: the lines, the device's registers, the
\* transactions so far and the number of GPIO / delay calls so far.
BusAtEntry == [lines |-> lines, rtc |-> rtc, log |-> << >>, n |-> 0]

\* A bus transfer `t` (its calls as the device saw them) run on the bus.
Transfer(bs, t) ==
    [lines |-> Merge(bs.lines, t.after),
     rtc   |-> DeviceStoreAll(bs.rtc, t.frames, 1),
     log   |-> bs.log \o Transactions(t.frames, bs.rtc),
     n     |-> bs.n + t.n]

\* write(reg, value) run on the bus.
DoWrite(bs, reg, value) == Transfer(bs, WriteSeen(reg, value))

\* What the eight GPIO_read_pin calls of a read transfer return: the bit the
\* device holds on IO, or `float` when nothing drives the line.
PinsRead(regs, frames, float) ==
    [j \in 1..CHAR_BIT |->
        IF /\ Len(frames) = 1
           /\ IsClockCommand(frames[1].cmd)
           /\ j <= Len(frames[1].bitno)
           /\ frames[1].bitno[j] >= 0
        THEN (Shr(regs[DeviceAddress(frames[1].cmd)], frames[1].bitno[j]) % 2) = 1
        ELSE float]

\* read(reg) run on the bus: the bus afterwards and the value returned.
DoRead(bs, reg, float) ==
    [bs  |-> Transfer(bs, ReadSeen(reg)),
     ret |-> read_byte(PinsRead(bs.rtc, ReadSeen(reg).frames, float))]

-----------------------------------------------------------------------------
(* Public operations, each as the bus and the values it leaves behind.     *)

NoAggregate ==
    [secs |-> 0, min |-> 0, hours |-> 0, weekday |-> 0, date |-> 0, month |-> 0,
     year |-> 0, is_12h_mode |-> FALSE, is_pm |-> FALSE]

\* A pointer to a datetime aggregate: NULL, or the aggregate it points at.
NULL == [null |-> TRUE, at |-> NoAggregate]
PointerTo(d) == [null |-> FALSE, at |-> d]

\* DS1302_get's reads with the seconds register read first.
DS1302_get_reads_seconds_first ==
    << READ_SECONDS, READ_MINUTES, READ_HOURS, READ_WEEKDAY, READ_DATE, READ_MONTH,
       READ_YEAR >>

\* The registers DS1302_get reads, in the order of its read calls.
DS1302_get_reads ==
    << READ_YEAR, READ_MONTH, READ_DATE, READ_WEEKDAY, READ_HOURS, READ_MINUTES,
       READ_SECONDS >>

\* read(regs[i]), read(regs[i + 1]), ... one after the other: the bus
\* afterwards and the values returned.
RECURSIVE read_each(_, _, _, _, _)
read_next(r, rets, regs, float, i) ==
    read_each(r.bs, Append(rets, r.ret), regs, float, i + 1)

read_each(bs, rets, regs, float, i) ==
    IF i > Len(regs) THEN [bs |-> bs, rets |-> rets]
    ELSE read_next(DoRead(bs, regs[i], float), rets, regs, float, i)

\* DS1302_get's aggregate with is_pm assigned from bit 5 in either mode.
DS1302_get_config_is_pm_always(config, rets) ==
    [year    |-> get_value_to_load(DS1302_YEAR, rets[1]),
     month   |-> get_value_to_load(DS1302_MONTH, rets[2]),
     date    |-> get_value_to_load(DS1302_DATE, rets[3]),
     weekday |-> get_value_to_load(DS1302_WEEKDAY, rets[4]),
     is_12h_mode |-> get_value_to_load(DS1302_FORMAT, rets[5]) # 0,
     is_pm   |-> get_value_to_load(DS1302_AM_PM, rets[5]) # 0,
     hours   |-> IF get_value_to_load(DS1302_FORMAT, rets[5]) # 0
                 THEN get_value_to_load(DS1302_HOURS_12H, rets[5])
                 ELSE get_value_to_load(DS1302_HOURS_24H, rets[5]),
     min     |-> get_value_to_load(DS1302_MINUTES, rets[6]),
     secs    |-> get_value_to_load(DS1302_SECONDS, rets[7])]

\* The aggregate DS1302_get leaves behind, from the bytes it read.
DS1302_get_config(config, rets) ==
    [year    |-> get_value_to_load(DS1302_YEAR, rets[1]),
     month   |-> get_value_to_load(DS1302_MONTH, rets[2]),
     date    |-> get_value_to_load(DS1302_DATE, rets[3]),
     weekday |-> get_value_to_load(DS1302_WEEKDAY, rets[4]),
     is_12h_mode |-> get_value_to_load(DS1302_FORMAT, rets[5]) # 0,
     is_pm   |-> IF get_value_to_load(DS1302_FORMAT, rets[5]) # 0
                 THEN get_value_to_load(DS1302_AM_PM, rets[5]) # 0
                 ELSE config.is_pm,
     hours   |-> IF get_value_to_load(DS1302_FORMAT, rets[5]) # 0
                 THEN get_value_to_load(DS1302_HOURS_12H, rets[5])
                 ELSE get_value_to_load(DS1302_HOURS_24H, rets[5]),
     min     |-> get_value_to_load(DS1302_MINUTES, rets[6]),
     secs    |-> get_value_to_load(DS1302_SECONDS, rets[7])]

DS1302_get_done(config, r) ==
    [bs |-> r.bs, config |-> DS1302_get_config(config, r.rets)]

\* DS1302_get: the bus afterwards and the aggregate behind the pointer.
DS1302_get(bs, ptr, float) ==
    IF ptr.null THEN [bs |-> bs, config |-> ptr.at]
    ELSE DS1302_get_done(ptr.at, read_each(bs, << >>, DS1302_get_reads, float, 1))

\* DS1302_set_hours_value that stores the AM/PM flag in 24-hour mode too.
DS1302_set_hours_value_am_pm_always(config) ==
    BitOr(BitOr(get_value_to_store(DS1302_FORMAT, BoolToInt(config.is_12h_mode)),
                get_value_to_store(DS1302_AM_PM, BoolToInt(config.is_pm))),
          get_value_to_store(IF config.is_12h_mode THEN DS1302_HOURS_12H
                             ELSE DS1302_HOURS_24H, config.hours))

\* DS1302_set_hours_value that forgets the AM/PM flag.
DS1302_set_hours_value_no_am_pm(config) ==
    IF config.is_12h_mode
    THEN BitOr(get_value_to_store(DS1302_FORMAT, BoolToInt(config.is_12h_mode)),
               get_value_to_store(DS1302_HOURS_12H, config.hours))
    ELSE BitOr(get_value_to_store(DS1302_FORMAT, BoolToInt(config.is_12h_mode)),
               get_value_to_store(DS1302_HOURS_24H, config.hours))

\* The byte DS1302_set builds for the hours register.
DS1302_set_hours_value(config) ==
    IF config.is_12h_mode
    THEN BitOr(BitOr(get_value_to_store(DS1302_FORMAT, BoolToInt(config.is_12h_mode)),
                     get_value_to_store(DS1302_AM_PM, BoolToInt(config.is_pm))),
               get_value_to_store(DS1302_HOURS_12H, config.hours))
    ELSE BitOr(get_value_to_store(DS1302_FORMAT, BoolToInt(config.is_12h_mode)),
               get_value_to_store(DS1302_HOURS_24H, config.hours))

\* DS1302_set's writes with write protection cleared first.
DS1302_set_writes_clearing_protection(config) ==
    << [reg |-> WRITE_WP,      value |-> 0],
       [reg |-> WRITE_YEAR,    value |-> get_value_to_store(DS1302_YEAR, config.year)],
       [reg |-> WRITE_MONTH,   value |-> get_value_to_store(DS1302_MONTH, config.month)],
       [reg |-> WRITE_DATE,    value |-> get_value_to_store(DS1302_DATE, config.date)],
       [reg |-> WRITE_WEEKDAY, value |-> get_value_to_store(DS1302_WEEKDAY, config.weekday)],
       [reg |-> WRITE_HOURS,   value |-> DS1302_set_hours_value(config)],
       [reg |-> WRITE_MINUTES, value |-> get_value_to_store(DS1302_MINUTES, config.min)],
       [reg |-> WRITE_SECONDS, value |-> get_value_to_store(DS1302_SECONDS, config.secs)] >>

\* DS1302_set_writes with the seconds written first instead of last.
DS1302_set_writes_seconds_first(config) ==
    << [reg |-> WRITE_SECONDS, value |-> get_value_to_store(DS1302_SECONDS, config.secs)],
       [reg |-> WRITE_YEAR,    value |-> get_value_to_store(DS1302_YEAR, config.year)],
       [reg |-> WRITE_MONTH,   value |-> get_value_to_store(DS1302_MONTH, config.month)],
       [reg |-> WRITE_DATE,    value |-> get_value_to_store(DS1302_DATE, config.date)],
       [reg |-> WRITE_WEEKDAY, value |-> get_value_to_store(DS1302_WEEKDAY, config.weekday)],
       [reg |-> WRITE_HOURS,   value |-> DS1302_set_hours_value(config)],
       [reg |-> WRITE_MINUTES, value |-> get_value_to_store(DS1302_MINUTES, config.min)] >>

\* The write calls of DS1302_set, in order.
DS1302_set_writes(config) ==
    << [reg |-> WRITE_YEAR,    value |-> get_value_to_store(DS1302_YEAR, config.year)],
       [reg |-> WRITE_MONTH,   value |-> get_value_to_store(DS1302_MONTH, config.month)],
       [reg |-> WRITE_DATE,    value |-> get_value_to_store(DS1302_DATE, config.date)],
       [reg |-> WRITE_WEEKDAY, value |-> get_value_to_store(DS1302_WEEKDAY, config.weekday)],
       [reg |-> WRITE_HOURS,   value |-> DS1302_set_hours_value(config)],
       [reg |-> WRITE_MINUTES, value |-> get_value_to_store(DS1302_MINUTES, config.min)],
       [reg |-> WRITE_SECONDS, value |-> get_value_to_store(DS1302_SECONDS, config.secs)] >>

\* write(ws[i]), write(ws[i + 1]), ... one after the other.
RECURSIVE write_each(_, _, _)
write_each(bs, ws, i) ==
    IF i > Len(ws) THEN bs
    ELSE write_each(DoWrite(bs, ws[i].reg, ws[i].value), ws, i + 1)

\* DS1302_set without the NULL check.
DS1302_set_unchecked(bs, ptr) == write_each(bs, DS1302_set_writes(ptr.at), 1)

\* DS1302_set: the bus afterwards.
DS1302_set(bs, ptr) ==
    IF ptr.null THEN bs ELSE write_each(bs, DS1302_set_writes(ptr.at), 1)

DS1302_get_value(type, r) == [bs |-> r.bs, ret |-> get_value_to_load(type, r.ret)]

\* DS1302_get_seconds that reads the register a second time.
DS1302_get_seconds_read_twice(bs, float) ==
    DS1302_get_value(DS1302_SECONDS,
                     DoRead(DoRead(bs, READ_SECONDS, float).bs, READ_SECONDS, float))

DS1302_get_seconds(bs, float) ==
    DS1302_get_value(DS1302_SECONDS, DoRead(bs, READ_SECONDS, float))

\* DS1302_get_minutes that addresses the seconds register.
DS1302_get_minutes_from_seconds(bs, float) ==
    DS1302_get_value(DS1302_MINUTES, DoRead(bs, READ_SECONDS, float))

DS1302_get_minutes(bs, float) ==
    DS1302_get_value(DS1302_MINUTES, DoRead(bs, READ_MINUTES, float))

\* DS1302_get_hours that always decodes with the 24-hour layout.
DS1302_get_hours_24h_only(bs, is_12h_mode, float) ==
    DS1302_get_value(DS1302_HOURS_24H, DoRead(bs, READ_HOURS, float))

DS1302_get_hours(bs, is_12h_mode, float) ==
    DS1302_get_value(IF is_12h_mode THEN DS1302_HOURS_12H ELSE DS1302_HOURS_24H,
                     DoRead(bs, READ_HOURS, float))

\* DS1302_set_write_protection that writes the flag itself, not the mask.
DS1302_set_write_protection_flag_as_byte(bs, val) ==
    DoWrite(bs, WRITE_WP, BoolToInt(val))

DS1302_set_write_protection(bs, val) ==
    IF val THEN DoWrite(bs, WRITE_WP, WRITE_PROTECTION_MASK)
    ELSE DoWrite(bs, WRITE_WP, 0)

\* DS1302_configure(void): "is going to be implemented later".
DS1302_configure(bs) == bs

-----------------------------------------------------------------------------
(* The older variants' codecs.                                             *)

get_value_to_store_src(entry, val) ==
    CASE entry \in {"DS1302_SECONDS", "DS1302_MINUTES"} ->
             U8(PackBcd(val, SEC_MIN_TENS_MASK))
      [] entry = "DS1302_HOURS"   -> BitAnd(val, HOURS_UNIT_MASK)
      [] entry = "DS1302_WEEKDAY" -> BitAnd(val, WEEKDAY_UNIT_MASK)
      [] entry = "DS1302_DATE"    -> U8(PackBcd(val, DATE_TENS_MASK))
      [] entry = "DS1302_MONTH"   -> U8(PackBcd(val, MONTH_TENS_MASK))
      [] entry = "DS1302_YEAR"    -> U8(PackBcd(val, YEAR_TENS_MASK))
      [] OTHER -> 0

get_value_to_load_src(entry, val) ==
    CASE entry \in {"DS1302_SECONDS", "DS1302_MINUTES"} ->
             U8(UnpackBcd(val, OTHER_UNIT_MASK, SEC_MIN_TENS_MASK))
      [] entry = "DS1302_HOURS"   -> BitAnd(val, HOURS_UNIT_MASK) * UNIT_FACTOR
      [] entry = "DS1302_WEEKDAY" -> BitAnd(val, WEEKDAY_UNIT_MASK) * UNIT_FACTOR
      [] entry = "DS1302_DATE"    -> U8(UnpackBcd(val, OTHER_UNIT_MASK, DATE_TENS_MASK))
      [] entry = "DS1302_MONTH"   -> U8(UnpackBcd(val, OTHER_UNIT_MASK, MONTH_TENS_MASK))
      [] entry = "DS1302_YEAR"    -> U8(UnpackBcd(val, OTHER_UNIT_MASK, YEAR_TENS_MASK))
      [] OTHER -> 0

get_value_to_store_p3(entry, val) ==
    CASE entry \in {"DS1302_SECONDS", "DS1302_MINUTES", "DS1302_HOURS"} ->
             U8(BitOr(BitAnd(Shl(val \div 10, 4), 112), val % 10))
      [] entry = "DS1302_WEEKDAY" -> BitAnd(val, 7)
      [] entry = "DS1302_DATE"    -> U8(BitOr(BitAnd(Shl(val \div 10, 4), 48), val % 10))
      [] entry = "DS1302_MONTH"   -> U8(BitOr(BitAnd(Shl(val \div 10, 4), 16), val % 10))
      [] entry = "DS1302_YEAR"    -> U8(BitOr(BitAnd(Shl(val \div 10, 4), 240), val % 10))
      [] OTHER -> 0

get_value_to_load_p3(entry, val) ==
    CASE entry \in {"DS1302_SECONDS", "DS1302_MINUTES", "DS1302_HOURS"} ->
             U8(BitAnd(val, 15) + Shr(BitAnd(val, 112), 4) * 10)
      [] entry = "DS1302_WEEKDAY" -> BitAnd(val, 7)
      [] entry = "DS1302_DATE"    -> U8(BitAnd(val, 15) + Shr(BitAnd(val, 48), 4) * 10)
      [] entry = "DS1302_MONTH"   -> U8(BitAnd(val, 15) + Shr(BitAnd(val, 16), 4) * 10)
      [] entry = "DS1302_YEAR"    -> U8(BitAnd(val, 15) + Shr(BitAnd(val, 240), 4) * 10)
      [] OTHER -> 0

get_value_to_store_pins(entry, val) ==
    CASE entry \in {"DS1302_SECONDS", "DS1302_MINUTES", "DS1302_HOURS"} ->
             U8(BitOr(BitAnd(Shl(val \div 10, 4), 112), val % 10))
      [] entry = "DS1302_WEEKDAY" -> BitAnd(val, 3)
      [] entry = "DS1302_DATE"    -> U8(BitOr(BitAnd(Shl(val \div 10, 4), 48), val % 10))
      [] entry = "DS1302_MONTH"   -> U8(BitOr(BitAnd(Shl(val \div 10, 4), 16), val % 10))
      [] entry = "DS1302_YEAR"    -> U8(BitOr(BitAnd(Shl(val \div 10, 4), 240), val % 10))
      [] OTHER -> 0

get_value_to_load_pins(entry, val) ==
    CASE entry \in {"DS1302_SECONDS", "DS1302_MINUTES", "DS1302_HOURS"} ->
             U8(BitAnd(val, 15) + Shr(BitAnd(val, 112), 4) * 10)
      [] entry = "DS1302_WEEKDAY" -> BitAnd(val, 7)
      [] entry = "DS1302_DATE"    -> U8(BitAnd(val, 15) + Shr(BitAnd(val, 48), 4) * 10)
      [] entry = "DS1302_MONTH"   -> U8(BitAnd(val, 15) + Shr(BitAnd(val, 16), 4) * 10)
      [] entry = "DS1302_YEAR"    -> U8(BitAnd(val, 15) + Shr(BitAnd(val, 240), 4) * 10)
      [] OTHER -> 0

Variants == {"12h24h", "src", "p3", "pins"}

\* The byte each variant's DS1302_set writes to the hours register for a
\* 24-hour value, and what the variant's decoder makes of a byte read from it.
HoursByteWritten(variant, hours) ==
    CASE variant = "12h24h" ->
             DS1302_set_hours_value([NoAggregate EXCEPT !.hours = hours])
      [] variant = "src"  -> get_value_to_store_src("DS1302_HOURS", hours)
      [] variant = "p3"   -> get_value_to_store_p3("DS1302_HOURS", hours)
      [] variant = "pins" -> get_value_to_store_pins("DS1302_HOURS", hours)

HoursByteLoaded(variant, value) ==
    CASE variant = "12h24h" -> get_value_to_load(DS1302_HOURS_24H, value)
      [] variant = "src"  -> get_value_to_load_src("DS1302_HOURS", value)
      [] variant = "p3"   -> get_value_to_load_p3("DS1302_HOURS", value)
      [] variant = "pins" -> get_value_to_load_pins("DS1302_HOURS", value)

-----------------------------------------------------------------------------
(* The variant that takes a pin assignment: every GPIO call names a        *)
(* (port, line) pair read from the static pins table.                      *)

DS1302_CLK_IDX == 0
DS1302_IO_IDX  == 1
DS1302_CE_IDX  == 2

\* The GPIO lines of the board, as (port, line) pairs, and the static table
\* before DS1302_configure has filled it.
PinLines == { <<1, 0>>, <<1, 1>>, <<2, 0>> } \cup { <<0, 0>> }

NoPins == [i \in 0..2 |-> <<0, 0>>]

NoWires == [l \in PinLines |-> [dir |-> "unconfigured", level |-> 1]]

NoRun == [calls |-> << >>, at |-> 0]

NoTick == [came |-> FALSE, regs |-> [a \in 0..7 |-> 0], at |-> 0]

\* stop that lowers the data line where it should lower the clock.
stop_pins_clock_on_data(p) ==
    << GPIO_write_pin(p[DS1302_CE_IDX], 0),
       GPIO_write_pin(p[DS1302_IO_IDX], 0) >>

stop_pins(p) ==
    << GPIO_write_pin(p[DS1302_CE_IDX], 0),
       GPIO_write_pin(p[DS1302_CLK_IDX], 0) >>

reset_pins(p) == stop_pins(p) \o << GPIO_write_pin(p[DS1302_CE_IDX], 1) >>

RECURSIVE write_byte_loop_pins(_, _, _)
write_byte_loop_pins(p, data, i) ==
    IF i < 8
    THEN << GPIO_write_pin(p[DS1302_IO_IDX], IF BitAnd(data, 1) # 0 THEN 1 ELSE 0),
            GPIO_write_pin(p[DS1302_CLK_IDX], 0),
            delay_us(2),
            GPIO_write_pin(p[DS1302_CLK_IDX], 1),
            delay_us(2) >> \o write_byte_loop_pins(p, Shr(data, 1), i + 1)
    ELSE << >>

write_byte_pins(p, data) ==
    << GPIO_config_pin(p[DS1302_IO_IDX], GPIO_OUTPUT_PUSH_PULL) >>
        \o write_byte_loop_pins(p, data, 0)

RECURSIVE read_byte_loop_pins(_, _)
read_byte_loop_pins(p, i) ==
    IF i < 8
    THEN << GPIO_write_pin(p[DS1302_CLK_IDX], 1),
            delay_us(2),
            GPIO_write_pin(p[DS1302_CLK_IDX], 0),
            delay_us(2),
            GPIO_read_pin(p[DS1302_IO_IDX]) >> \o read_byte_loop_pins(p, i + 1)
    ELSE << >>

\* The calls read_byte issues; the value it returns is shifted together as in
\* read_byte above.
read_byte_calls_pins(p) ==
    << GPIO_config_pin(p[DS1302_IO_IDX], GPIO_INPUT_FLOATING) >>
        \o read_byte_loop_pins(p, 0)

start_pins(p, type) == reset_pins(p) \o write_byte_pins(p, type)

write_pins(p, reg, value) ==
    start_pins(p, reg) \o write_byte_pins(p, value) \o stop_pins(p)

read_calls_pins(p, reg) == start_pins(p, reg) \o read_byte_calls_pins(p) \o stop_pins(p)

\* The calls of DS1302_set.
DS1302_set_pins(p, ptr) ==
    IF ptr.null THEN << >>
    ELSE write_pins(p, WRITE_SECONDS, get_value_to_store_pins("DS1302_SECONDS", ptr.at.secs))
         \o write_pins(p, WRITE_MINUTES,
                       get_value_to_store_pins("DS1302_MINUTES", ptr.at.min))
         \o write_pins(p, WRITE_HOURS, get_value_to_store_pins("DS1302_HOURS", ptr.at.hours))

\* The calls of DS1302_set_write_protection.
DS1302_set_write_protection_pins(p, val) ==
    IF val THEN write_pins(p, WRITE_WP, Shl(1, 7)) ELSE write_pins(p, WRITE_WP, 0)

\* The table DS1302_configure leaves in pins: the memcpy of config->pins.
DS1302_configure_copy_kept(p, ptr) == p

DS1302_configure_copy(p, ptr) == IF ptr.null THEN p ELSE ptr.at.pins

RECURSIVE DS1302_configure_loop(_, _)
DS1302_configure_loop(p, i) ==
    IF i < 3
    THEN << GPIO_config_pin(p[i], GPIO_OUTPUT_PUSH_PULL), GPIO_write_pin(p[i], 0) >>
             \o DS1302_configure_loop(p, i + 1)
    ELSE << >>

\* DS1302_configure that reports success for a NULL config.
DS1302_configure_pins_null_accepted(p, ptr) ==
    IF ptr.null THEN [ret |-> 0, pins |-> p, calls |-> << >>]
    ELSE [ret   |-> 0,
          pins  |-> DS1302_configure_copy(p, ptr),
          calls |-> DS1302_configure_loop(DS1302_configure_copy(p, ptr), 0)]

\* DS1302_configure(config): the value returned, the table and the calls.
DS1302_configure_pins(p, ptr) ==
    IF ptr.null THEN [ret |-> -1, pins |-> p, calls |-> << >>]
    ELSE [ret   |-> 0,
          pins  |-> DS1302_configure_copy(p, ptr),
          calls |-> DS1302_configure_loop(DS1302_configure_copy(p, ptr), 0)]

\* The last of the calls named fn on line l, as a sequence of at most one.
LastOn(calls, fn, l) ==
    LET on == SelectSeq(calls, LAMBDA c : c.fn = fn /\ c.ch = l)
    IN  IF on = << >> THEN << >> ELSE << on[Len(on)] >>

\* The GPIO lines after the calls, starting from w0.
WiresAfter(calls, w0) ==
    [l \in DOMAIN w0 |->
        [dir   |-> IF LastOn(calls, "GPIO_config_pin", l) = << >> THEN w0[l].dir
                   ELSE LastOn(calls, "GPIO_config_pin", l)[1].mode,
         level |-> IF LastOn(calls, "GPIO_write_pin", l) = << >> THEN w0[l].level
                   ELSE LastOn(calls, "GPIO_write_pin", l)[1].level]]

-----------------------------------------------------------------------------
(* Inputs.                                                                 *)

NumProfiles == 2
MaxMonthArg == 14
MaxEntryArg == 11

\* The k-th sample of a ranged field: its minimum, its maximum, then values
\* in between.
FieldSample(type, k) ==
    LET lo == ranges[type].min
        hi == ranges[type].max
    IN  IF k = 0 THEN lo
        ELSE IF k = 1 THEN hi
        ELSE lo + ((k * 7) % (hi - lo + 1))

\* Every hour of either format, with either AM/PM flag.
HourChoices ==
    {[hours |-> h, is_12h_mode |-> FALSE, is_pm |-> p] :
        h \in ranges[DS1302_HOURS_24H].min..ranges[DS1302_HOURS_24H].max, p \in BOOLEAN}
    \cup
    {[hours |-> h, is_12h_mode |-> TRUE, is_pm |-> p] :
        h \in ranges[DS1302_HOURS_12H].min..ranges[DS1302_HOURS_12H].max, p \in BOOLEAN}

\* The first and the last hour of the 24-hour clock, and 11 PM and 12 AM of
\* the 12-hour clock.
HourSamples ==
    {hc \in HourChoices :
        \/ ~hc.is_12h_mode /\ ~hc.is_pm
              /\ hc.hours \in {ranges[DS1302_HOURS_24H].min, ranges[DS1302_HOURS_24H].max}
        \/ hc.is_12h_mode /\ hc.is_pm /\ hc.hours = 11
        \/ hc.is_12h_mode /\ ~hc.is_pm /\ hc.hours = ranges[DS1302_HOURS_12H].max}

Aggregate(k, hc) ==
    [secs    |-> FieldSample(DS1302_SECONDS, k),
     min     |-> FieldSample(DS1302_MINUTES, k),
     hours   |-> hc.hours,
     weekday |-> FieldSample(DS1302_WEEKDAY, k),
     date    |-> FieldSample(DS1302_DATE, k),
     month   |-> FieldSample(DS1302_MONTH, k),
     year    |-> FieldSample(DS1302_YEAR, k),
     is_12h_mode |-> hc.is_12h_mode,
     is_pm   |-> hc.is_pm]

DateTimes == {Aggregate(k, hc) : k \in 0..(NumProfiles - 1), hc \in HourSamples}

AllHoursDateTimes == {Aggregate(k, hc) : k \in 0..(NumProfiles - 1), hc \in HourChoices}

\* What a caller's aggregate may hold before DS1302_get fills it.
StaleAggregates == {NoAggregate, [NoAggregate EXCEPT !.is_pm = TRUE]}

\* The device's registers at power-up: nothing the driver can rely on.
InitRegisters == {[a \in 0..7 |-> 0], [a \in 0..7 |-> 255]}

InitLines == {IdleLines, [ce |-> 1, clk |-> 1, io |-> 1, dir |-> "unconfigured"]}

MkCall(op, ptr, flag, a, b, variant) ==
    [op |-> op, null |-> ptr.null, config |-> ptr.at, flag |-> flag, a |-> a, b |-> b,
     variant |-> variant]

NoCall == MkCall("none", NULL, FALSE, 0, 0, "12h24h")

-----------------------------------------------------------------------------
(* The driver in use: any public operation, any number of times.           *)

Init ==
    /\ lines \in InitLines
    /\ rtc \in InitRegisters
    /\ txlog = << >>
    /\ gpio_calls = 0
    /\ call = NoCall
    /\ ret = NotCalled
    /\ out = NoAggregate
    /\ pins = NoPins
    /\ wires = NoWires
    /\ run = NoRun
    /\ tick = NoTick

\* The bus as a call leaves it.
Leaves(bs) ==
    /\ lines' = bs.lines
    /\ rtc' = bs.rtc
    /\ txlog' = bs.log
    /\ gpio_calls' = bs.n
    /\ UNCHANGED << pins, wires, run, tick >>

\* DS1302_get as it leaves the bus and the caller's aggregate.
GetLeaves(r) ==
    /\ Leaves(r.bs)
    /\ out' = r.config

\* A single-register getter as it leaves the bus and its return value.
ValueLeaves(r) ==
    /\ Leaves(r.bs)
    /\ ret' = Returned(r.ret)

SetFrom(D) ==
    \E ptr \in {NULL} \cup {PointerTo(d) : d \in D} :
        /\ Leaves(DS1302_set(BusAtEntry, ptr))
        /\ call' = MkCall("DS1302_set", ptr, FALSE, 0, 0, "12h24h")
        /\ ret' = Returned(0)
        /\ out' = ptr.at

CallSet ==
    /\ ~ret.fatal
    /\ SetFrom(DateTimes)

CallGet ==
    /\ ~ret.fatal
    /\ \E ptr \in {NULL} \cup {PointerTo(d) : d \in StaleAggregates}, float \in BOOLEAN :
        /\ GetLeaves(DS1302_get(BusAtEntry, ptr, float))
        /\ call' = MkCall("DS1302_get", ptr, FALSE, 0, 0, "12h24h")
        /\ ret' = Returned(0)

CallGetSeconds ==
    /\ ~ret.fatal
    /\ \E float \in BOOLEAN :
        /\ ValueLeaves(DS1302_get_seconds(BusAtEntry, float))
        /\ call' = MkCall("DS1302_get_seconds", NULL, FALSE, 0, 0, "12h24h")
        /\ out' = NoAggregate

CallGetMinutes ==
    /\ ~ret.fatal
    /\ \E float \in BOOLEAN :
        /\ ValueLeaves(DS1302_get_minutes(BusAtEntry, float))
        /\ call' = MkCall("DS1302_get_minutes", NULL, FALSE, 0, 0, "12h24h")
        /\ out' = NoAggregate

CallGetHours ==
    /\ ~ret.fatal
    /\ \E is_12h_mode \in BOOLEAN, float \in BOOLEAN :
        /\ ValueLeaves(DS1302_get_hours(BusAtEntry, is_12h_mode, float))
        /\ call' = MkCall("DS1302_get_hours", NULL, is_12h_mode, 0, 0, "12h24h")
        /\ out' = NoAggregate

CallSetWriteProtection ==
    /\ ~ret.fatal
    /\ \E val \in BOOLEAN :
        /\ Leaves(DS1302_set_write_protection(BusAtEntry, val))
        /\ call' = MkCall("DS1302_set_write_protection", NULL, val, 0, 0, "12h24h")
        /\ ret' = Returned(0)
        /\ out' = NoAggregate

CallConfigure ==
    /\ ~ret.fatal
    /\ Leaves(DS1302_configure(BusAtEntry))
    /\ call' = MkCall("DS1302_configure", NULL, FALSE, 0, 0, "12h24h")
    /\ ret' = Returned(0)
    /\ out' = NoAggregate

Next ==
    \/ CallSet
    \/ CallGet
    \/ CallGetSeconds
    \/ CallGetMinutes
    \/ CallGetHours
    \/ CallSetWriteProtection
    \/ CallConfigure

Spec == Init /\ [][Next]_vars

-----------------------------------------------------------------------------
(* Set then get: write protection is set or cleared (or left as the device *)
(* powered up), one aggregate is written, and it is read back at once.     *)

FirstProtect ==
    /\ call.op = "none"
    /\ CallSetWriteProtection

ThenSet ==
    /\ call.op \in {"none", "DS1302_set_write_protection"}
    /\ ~ret.fatal
    /\ SetFrom(AllHoursDateTimes)

ThenGet ==
    /\ call.op = "DS1302_set"
    /\ CallGet

NextSetGet ==
    \/ FirstProtect
    \/ ThenSet
    \/ ThenGet

SpecSetGet == Init /\ [][NextSetGet]_vars

-----------------------------------------------------------------------------
(* The codec and the range lookups on their own: one call on any input.    *)

InitCodec ==
    /\ lines \in InitLines
    /\ rtc \in InitRegisters
    /\ txlog = << >>
    /\ gpio_calls = 0
    /\ call = NoCall
    /\ ret = NotCalled
    /\ out = NoAggregate
    /\ pins = NoPins
    /\ wires = NoWires
    /\ run = NoRun
    /\ tick = NoTick

\* A call that touches no line.
OffBus ==
    /\ txlog' = << >>
    /\ gpio_calls' = 0
    /\ UNCHANGED <<lines, rtc, out, pins, wires, run, tick>>

CallStore ==
    /\ call.op = "none"
    /\ \E entry \in 0..MaxEntryArg, val \in Byte :
        /\ call' = MkCall("get_value_to_store", NULL, FALSE, entry, val, "12h24h")
        /\ ret' = IF is_codec_entry(entry) THEN Returned(get_value_to_store(entry, val))
                  ELSE Fatal
    /\ OffBus

CallLoad ==
    /\ call.op = "none"
    /\ \E entry \in 0..MaxEntryArg, val \in Byte :
        /\ call' = MkCall("get_value_to_load", NULL, FALSE, entry, val, "12h24h")
        /\ ret' = IF is_codec_entry(entry) THEN Returned(get_value_to_load(entry, val))
                  ELSE Fatal
    /\ OffBus

CallRangeMinimum ==
    /\ call.op = "none"
    /\ \E type \in Byte :
        /\ call' = MkCall("DS1302_get_range_minimum", NULL, FALSE, type, 0, "12h24h")
        /\ ret' = DS1302_get_range_minimum(type)
    /\ OffBus

CallRangeMaximum ==
    /\ call.op = "none"
    /\ \E type \in Byte :
        /\ call' = MkCall("DS1302_get_range_maximum", NULL, FALSE, type, 0, "12h24h")
        /\ ret' = DS1302_get_range_maximum(type)
    /\ OffBus

CallDateRangeMaximum ==
    /\ call.op = "none"
    /\ \E year \in Byte, month \in 0..MaxMonthArg :
        /\ call' = MkCall("DS1302_get_date_range_maximum", NULL, FALSE, year, month,
                          "12h24h")
        /\ ret' = DS1302_get_date_range_maximum(year, month)
    /\ OffBus

\* The hours byte of DS1302_set, variant by variant.
CallSetHoursByte ==
    /\ call.op = "none"
    /\ \E variant \in Variants, hours \in Byte :
        /\ call' = MkCall("DS1302_set.hours", NULL, FALSE, hours, 0, variant)
        /\ ret' = Returned(HoursByteWritten(variant, hours))
    /\ OffBus

\* The levels the calls hold on IO at their rising clock edges, in order, as
\* the values of as many GPIO_read_pin calls.
PresentedBits(calls, l0) ==
    [j \in 1..Len(Rises(calls, GPIO_CHANNEL_RTC_CLK, 0, Len(calls) + 1, l0.clk)) |->
        SampledBit(calls,
                   Rises(calls, GPIO_CHANNEL_RTC_CLK, 0, Len(calls) + 1, l0.clk)[j].at,
                   l0) = 1]

\* write_byte(data) looped back into read_byte: what read_byte returns when
\* its samples are the bits write_byte presents.
CallLoopback ==
    /\ call.op = "none"
    /\ \E data \in Byte :
        /\ call' = MkCall("write_byte>read_byte", NULL, FALSE, data,
                          Len(PresentedBits(write_byte(data), lines)), "12h24h")
        /\ ret' = Returned(read_byte(PresentedBits(write_byte(data), lines)))
    /\ OffBus

\* write_byte(data) on its own: its calls and the lines as it leaves them.
CallWriteByte ==
    /\ call.op = "none"
    /\ \E data \in Byte :
        /\ call' = MkCall("write_byte", NULL, FALSE, data, 0, "12h24h")
        /\ run' = [calls |-> write_byte(data), at |-> Len(write_byte(data))]
        /\ lines' = LinesAfter(write_byte(data), lines)
        /\ gpio_calls' = Len(write_byte(data))
    /\ ret' = Returned(0)
    /\ txlog' = << >>
    /\ UNCHANGED << rtc, out, pins, wires, tick >>

\* read_byte() on its own: its calls, the lines as it leaves them and the byte
\* it returns when its GPIO_read_pin calls return the bits of s, bit 0 first.
CallReadByte ==
    /\ call.op = "none"
    /\ \E s \in Byte :
        /\ call' = MkCall("read_byte", NULL, FALSE, s, 0, "12h24h")
        /\ ret' = Returned(read_byte([j \in 1..CHAR_BIT |-> (s \div (2 ^ (j - 1))) % 2 = 1]))
    /\ run' = [calls |-> read_byte_calls, at |-> Len(read_byte_calls)]
    /\ lines' = LinesAfter(read_byte_calls, lines)
    /\ gpio_calls' = Len(read_byte_calls)
    /\ txlog' = << >>
    /\ UNCHANGED << rtc, out, pins, wires, tick >>

\* The pin-assignment variant's codec on a weekday: the byte
\* get_value_to_store gives for val, and what get_value_to_load gives back
\* for that byte.
CallWeekdayPins ==
    /\ call.op = "none"
    /\ \E val \in Byte :
        /\ call' = MkCall("get_value_to_store>get_value_to_load", NULL, FALSE, val,
                          get_value_to_store_pins("DS1302_WEEKDAY", val), "pins")
        /\ ret' = Returned(get_value_to_load_pins("DS1302_WEEKDAY",
                               get_value_to_store_pins("DS1302_WEEKDAY", val)))
    /\ OffBus

NextCodec ==
    \/ CallStore
    \/ CallLoad
    \/ CallRangeMinimum
    \/ CallRangeMaximum
    \/ CallDateRangeMaximum
    \/ CallSetHoursByte
    \/ CallLoopback
    \/ CallWriteByte
    \/ CallReadByte
    \/ CallWeekdayPins

SpecCodec == InitCodec /\ [][NextCodec]_vars

-----------------------------------------------------------------------------
(* The read operations on a device whose hours register holds any byte.    *)

InitGetters ==
    /\ lines = IdleLines
    /\ rtc \in {[a \in 0..7 |-> IF a = 2 THEN b ELSE 0] : b \in Byte}
    /\ txlog = << >>
    /\ gpio_calls = 0
    /\ call = NoCall
    /\ ret = NotCalled
    /\ out = NoAggregate
    /\ pins = NoPins
    /\ wires = NoWires
    /\ run = NoRun
    /\ tick = NoTick

NextGetters ==
    \/ CallGet
    \/ CallGetSeconds
    \/ CallGetMinutes
    \/ CallGetHours

SpecGetters == InitGetters /\ [][NextGetters]_vars

-----------------------------------------------------------------------------
(* One transaction at a time, GPIO call by GPIO call.  The device is not   *)
(* part of this specification: a GPIO_read_pin call may return either      *)
(* level.                                                                  *)

BusBytes == {0, 85, 255}

\* write(reg, value) entered: none of its calls made yet.
BeginWrite ==
    /\ run.at = Len(run.calls)
    /\ \E reg \in {WRITE_SECONDS, WRITE_WP}, value \in BusBytes :
        /\ run' = [calls |-> write(reg, value), at |-> 0]
        /\ call' = MkCall("write", NULL, FALSE, reg, value, "12h24h")
    /\ ret' = NotCalled
    /\ UNCHANGED << lines, rtc, txlog, gpio_calls, out, pins, wires, tick >>

\* read(reg) entered: read_byte's ret starts from 0.
BeginRead ==
    /\ run.at = Len(run.calls)
    /\ \E reg \in {READ_SECONDS} :
        /\ run' = [calls |-> read_calls(reg), at |-> 0]
        /\ call' = MkCall("read", NULL, FALSE, reg, 0, "12h24h")
    /\ ret' = Returned(0)
    /\ UNCHANGED << lines, rtc, txlog, gpio_calls, out, pins, wires, tick >>

\* The next call, when it configures or writes a line or waits.
StepLine ==
    /\ run.at < Len(run.calls)
    /\ run.calls[run.at + 1].fn # "GPIO_read_pin"
    /\ run' = [run EXCEPT !.at = @ + 1]
    /\ lines' = LinesAfter(<< run.calls[run.at + 1] >>, lines)
    /\ gpio_calls' = run.at + 1
    /\ UNCHANGED << rtc, txlog, call, ret, out, pins, wires, tick >>

\* The next call, when it is read_byte's GPIO_read_pin: ret has been shifted
\* right and takes the level read as its top bit.
StepSample ==
    /\ run.at < Len(run.calls)
    /\ run.calls[run.at + 1].fn = "GPIO_read_pin"
    /\ run' = [run EXCEPT !.at = @ + 1]
    /\ gpio_calls' = run.at + 1
    /\ \E level \in BOOLEAN :
        ret' = Returned(IF level THEN BitOr(Shr(ret.value, 1), Shl(1, MSB_SHIFT))
                        ELSE Shr(ret.value, 1))
    /\ UNCHANGED << lines, rtc, txlog, call, out, pins, wires, tick >>

NextBus ==
    \/ BeginWrite
    \/ BeginRead
    \/ StepLine
    \/ StepSample

SpecBus == Init /\ [][NextBus]_vars

-----------------------------------------------------------------------------
(* DS1302_get read by read, on a device whose clock is running: between    *)
(* any two reads the device may step to the next second.                   *)

BcdValue(b) == (b \div 16) * 10 + (b % 16)
BcdByte(v)  == (v \div 10) * 16 + (v % 10)

\* Clock registers holding a date and a time of day in 24-hour mode.
ClockRegisters(y, mo, d, w, h, m, s) ==
    [a \in 0..7 |->
        CASE a = 0 -> BcdByte(s)
          [] a = 1 -> BcdByte(m)
          [] a = 2 -> BcdByte(h)
          [] a = 3 -> BcdByte(d)
          [] a = 4 -> BcdByte(mo)
          [] a = 5 -> w
          [] a = 6 -> BcdByte(y)
          [] OTHER -> 0]

\* The date and time in the clock registers r, one second later.
NextSecond(r) ==
    LET s  == BcdValue(r[0])
        m  == BcdValue(r[1])
        h  == BcdValue(r[2])
        d  == BcdValue(r[3])
        mo == BcdValue(r[4])
        y  == BcdValue(r[6])
        minute == s = 59
        hour   == minute /\ m = 59
        day    == hour /\ h = 23
        month  == day /\ d >= (IF mo \in {4, 6, 9, 11} THEN 30
                               ELSE IF mo # 2 THEN 31
                               ELSE IF y % 4 = 0 THEN 29 ELSE 28)
        year   == month /\ mo = 12
    IN  ClockRegisters(IF year THEN (y + 1) % 100 ELSE y,
                       IF year THEN 1 ELSE IF month THEN mo + 1 ELSE mo,
                       IF month THEN 1 ELSE IF day THEN d + 1 ELSE d,
                       IF day THEN (r[5] % 7) + 1 ELSE r[5],
                       IF day THEN 0 ELSE IF hour THEN h + 1 ELSE h,
                       IF hour THEN 0 ELSE IF minute THEN m + 1 ELSE m,
                       IF minute THEN 0 ELSE s + 1)

\* What the clock may show when DS1302_get is called.
TickRegisters ==
    { ClockRegisters(99, 12, 31, 7, 23, 59, 59),
      ClockRegisters(24, 2, 29, 4, 23, 59, 59),
      ClockRegisters(24, 6, 15, 6, 10, 59, 59),
      ClockRegisters(24, 6, 15, 6, 10, 20, 59),
      ClockRegisters(24, 6, 15, 6, 10, 20, 30) }

InitTick ==
    /\ lines = IdleLines
    /\ rtc \in TickRegisters
    /\ txlog = << >>
    /\ gpio_calls = 0
    /\ call = NoCall
    /\ ret = NotCalled
    /\ out = NoAggregate
    /\ pins = NoPins
    /\ wires = NoWires
    /\ run = NoRun
    /\ tick = NoTick

\* The fields of the aggregate that DS1302_get assigns after its i-th read.
DS1302_get_fields ==
    << {"year"}, {"month"}, {"date"}, {"weekday"}, {"hours", "is_12h_mode", "is_pm"},
       {"min"}, {"secs"} >>

\* The aggregate after DS1302_get has assigned what it decodes from val, the
\* byte returned by its i-th read.
DS1302_get_assign(config, i, val) ==
    [f \in DOMAIN config |->
        IF f \in DS1302_get_fields[i]
        THEN DS1302_get_config(config, [j \in 1..7 |-> val])[f]
        ELSE config[f]]

\* DS1302_get entered; with a NULL pointer it returns at once.
GetEnter ==
    /\ call.op = "none" \/ ret.returned
    /\ \E ptr \in {NULL} \cup {PointerTo(d) : d \in StaleAggregates}, float \in BOOLEAN :
        /\ call' = MkCall("DS1302_get", ptr, float, 0, 0, "12h24h")
        /\ ret' = IF ptr.null THEN Returned(0) ELSE NotCalled
        /\ out' = ptr.at
    /\ txlog' = << >>
    /\ gpio_calls' = 0
    /\ tick' = NoTick
    /\ UNCHANGED << lines, rtc, pins, wires, run >>

\* The bus and the aggregate after a read of DS1302_get; the seventh is
\* followed by the return.
GetReadLeaves(r) ==
    /\ lines' = r.bs.lines
    /\ rtc' = r.bs.rtc
    /\ txlog' = r.bs.log
    /\ gpio_calls' = r.bs.n
    /\ out' = DS1302_get_assign(out, Len(txlog) + 1, r.ret)
    /\ ret' = IF Len(txlog) + 1 = Len(DS1302_get_reads) THEN Returned(0) ELSE NotCalled

GetRead ==
    /\ call.op = "DS1302_get"
    /\ ~ret.returned
    /\ GetReadLeaves(DoRead([lines |-> lines, rtc |-> rtc, log |-> txlog, n |-> gpio_calls],
                            DS1302_get_reads[Len(txlog) + 1], call.flag))
    /\ UNCHANGED << call, pins, wires, run, tick >>

\* The device steps to the next second while DS1302_get is under way; the
\* clock is followed over one second from the time it showed at first.
DeviceTick ==
    /\ call.op = "DS1302_get"
    /\ ~ret.returned
    /\ ~tick.came
    /\ rtc \in TickRegisters
    /\ tick' = [came |-> TRUE, regs |-> rtc, at |-> Len(txlog)]
    /\ rtc' = NextSecond(rtc)
    /\ UNCHANGED << lines, txlog, gpio_calls, call, ret, out, pins, wires, run >>

NextTick ==
    \/ GetEnter
    \/ GetRead
    \/ DeviceTick

SpecTick == InitTick /\ [][NextTick]_vars

-----------------------------------------------------------------------------
(* DS1302_set on an aggregate whose fields hold any byte.                  *)

\* Aggregates with the same byte in every numeric field, in and out of the
\* fields' ranges, and both flags either way.
AnyAggregates ==
    {[secs |-> v, min |-> v, hours |-> v, weekday |-> v, date |-> v, month |-> v,
      year |-> v, is_12h_mode |-> m, is_pm |-> p] : v \in Byte, m \in BOOLEAN, p \in BOOLEAN}

CallSetAny ==
    /\ call.op = "none"
    /\ SetFrom(AnyAggregates)

SpecSetAny == Init /\ [][CallSetAny]_vars

-----------------------------------------------------------------------------
(* The pin-assignment variant in use.                                      *)

\* The assignments a caller may pass: the three lines in the order clock,
\* data, chip-enable, and the same lines with the roles moved round.
PinConfigs ==
    { [pins |-> (0 :> <<1, 0>>) @@ (1 :> <<1, 1>>) @@ (2 :> <<2, 0>>)],
      [pins |-> (0 :> <<1, 1>>) @@ (1 :> <<2, 0>>) @@ (2 :> <<1, 0>>)],
      [pins |-> (0 :> <<2, 0>>) @@ (1 :> <<1, 0>>) @@ (2 :> <<1, 1>>)] }

\* What the eight GPIO_read_pin calls of a read may return.
PinSamples == {[j \in 1..8 |-> FALSE], [j \in 1..8 |-> j % 2 = 1]}

\* A call of the pin-assignment variant as it leaves the lines and the record
\* of its GPIO calls.
LeavesPins(calls) ==
    /\ wires' = WiresAfter(calls, wires)
    /\ run' = [calls |-> calls, at |-> Len(calls)]
    /\ gpio_calls' = Len(calls)
    /\ UNCHANGED << lines, rtc, txlog, out, tick >>

CallConfigurePins ==
    \E ptr \in {NULL} \cup {PointerTo(c) : c \in PinConfigs} :
        /\ pins' = DS1302_configure_pins(pins, ptr).pins
        /\ LeavesPins(DS1302_configure_pins(pins, ptr).calls)
        /\ call' = MkCall("DS1302_configure", ptr, FALSE, 0, 0, "pins")
        /\ ret' = Returned(DS1302_configure_pins(pins, ptr).ret)

CallSetPins ==
    \E ptr \in {NULL} \cup {PointerTo(Aggregate(k, hc)) :
                               k \in 0..1, hc \in {x \in HourSamples : x.hours = 23}} :
        /\ LeavesPins(DS1302_set_pins(pins, ptr))
        /\ call' = MkCall("DS1302_set", ptr, FALSE, 0, 0, "pins")
        /\ ret' = Returned(0)
        /\ UNCHANGED pins

\* One of DS1302_get_seconds, DS1302_get_minutes, DS1302_get_hours.
CallGetFieldPins ==
    \E f \in { [op |-> "DS1302_get_seconds", reg |-> READ_SECONDS, entry |-> "DS1302_SECONDS"],
               [op |-> "DS1302_get_minutes", reg |-> READ_MINUTES, entry |-> "DS1302_MINUTES"],
               [op |-> "DS1302_get_hours", reg |-> READ_HOURS, entry |-> "DS1302_HOURS"] },
       samples \in PinSamples :
        /\ LeavesPins(read_calls_pins(pins, f.reg))
        /\ call' = MkCall(f.op, NULL, FALSE, f.reg, 0, "pins")
        /\ ret' = Returned(get_value_to_load_pins(f.entry, read_byte(samples)))
        /\ UNCHANGED pins

CallSetWriteProtectionPins ==
    \E val \in BOOLEAN :
        /\ LeavesPins(DS1302_set_write_protection_pins(pins, val))
        /\ call' = MkCall("DS1302_set_write_protection", NULL, val, 0, 0, "pins")
        /\ ret' = Returned(0)
        /\ UNCHANGED pins

NextPins ==
    \/ CallConfigurePins
    \/ CallSetPins
    \/ CallGetFieldPins
    \/ CallSetWriteProtectionPins

SpecPins == Init /\ [][NextPins]_vars

-----------------------------------------------------------------------------
(* Properties of the codec and the range lookups (SpecCodec).              *)

\* The eight ranged fields.
RangedFields ==
    {DS1302_SECONDS, DS1302_MINUTES, DS1302_HOURS_24H, DS1302_HOURS_12H,
     DS1302_WEEKDAY, DS1302_DATE, DS1302_MONTH, DS1302_YEAR}

InFieldRange(type, v) == v \in ranges[type].min..ranges[type].max

\* C1: codec round trip -- for each of the eight ranged fields and every
\* value within the field's [min, max] of the range table, loading the byte
\* that get_value_to_store returned gives the value back.
C1_CodecRoundTrip ==
    (/\ call.op = "get_value_to_store"
     /\ call.a \in RangedFields
     /\ InFieldRange(call.a, call.b))
    => /\ ret.returned
       /\ get_value_to_load(call.a, ret.value) = call.b

\* Twelve o'clock of the 12-hour clock is stored as 0x12.
C1_Witness ==
    /\ call.op = "get_value_to_store"
    /\ call.a = DS1302_HOURS_12H
    /\ call.b = 12
    /\ ret.value = 18
    /\ get_value_to_load(DS1302_HOURS_12H, ret.value) = 12

\* The layout table of the register bytes: units mask and tens mask per field
\* (the weekday has no tens digit).
LayoutUnitsMask(type) == IF type = DS1302_WEEKDAY THEN 7 ELSE 15

LayoutTensMask(type) ==
    CASE type \in {DS1302_SECONDS, DS1302_MINUTES} -> 112
      [] type = DS1302_HOURS_24H -> 48
      [] type = DS1302_HOURS_12H -> 16
      [] type = DS1302_WEEKDAY   -> 0
      [] type = DS1302_DATE      -> 48
      [] type = DS1302_MONTH     -> 16
      [] type = DS1302_YEAR      -> 240

LayoutPacked(type, v) ==
    IF type = DS1302_WEEKDAY THEN BitAnd(v, 7)
    ELSE BitOr(BitAnd(Shl(v \div 10, 4), LayoutTensMask(type)), v % 10)

LayoutValue(type, packed) ==
    BitAnd(packed, LayoutUnitsMask(type))
        + Shr(BitAnd(packed, LayoutTensMask(type)), 4) * 10

\* C3: the BCD encoding matches the layout table -- for every ranged field
\* and every value in its range get_value_to_store returns the tens digit
\* shifted by four and masked with the field's tens mask, or-ed with the
\* units digit (the weekday: the value and 0x07); get_value_to_load returns
\* units plus ten times the masked tens digit, which undoes the packing;
\* year 99 is stored as 0x99 and 0x99 is loaded as year 99.
C3_BcdLayout ==
    /\ (/\ call.op = "get_value_to_store"
        /\ call.a \in RangedFields
        /\ InFieldRange(call.a, call.b))
       => ret = Returned(LayoutPacked(call.a, call.b))
    /\ (call.op = "get_value_to_load" /\ call.a \in RangedFields)
       => /\ ret = Returned(LayoutValue(call.a, call.b))
          /\ \A v \in ranges[call.a].min..ranges[call.a].max :
                call.b = LayoutPacked(call.a, v) => ret.value = v
    /\ (call.op = "get_value_to_store" /\ call.a = DS1302_YEAR /\ call.b = 99)
       => ret.value = 153
    /\ (call.op = "get_value_to_load" /\ call.a = DS1302_YEAR /\ call.b = 153)
       => ret.value = 99

\* 0x99 read from the year register is year 99.
C3_Witness ==
    /\ call.op = "get_value_to_load"
    /\ call.a = DS1302_YEAR
    /\ call.b = 153
    /\ ret.value = 99

\* C4: in every variant of the driver, for every 24-hour value 0..23 the
\* byte DS1302_set writes to the hours register is BCD (bits 4-5 the tens,
\* bits 0-3 the units, 23 written as 0x23), and decoding it returns the value.
C4_HoursByteIsBcd ==
    (call.op = "DS1302_set.hours" /\ call.a \in 0..23)
    => /\ ret.value = (call.a \div 10) * 16 + (call.a % 10)
       /\ HoursByteLoaded(call.variant, ret.value) = call.a

\* The days of a month as the calendar rule gives them.
CalendarDays(year, month) ==
    IF month \in {1, 3, 5, 7, 8, 10, 12} THEN 31
    ELSE IF month \in {4, 6, 9, 11} THEN 30
    ELSE IF (year % 4 = 0) /\ ((year % 100 # 0) \/ (year % 400 = 0)) THEN 29
    ELSE 28

\* C5: DS1302_get_date_range_maximum returns 31 for months 1, 3, 5, 7, 8, 10
\* and 12, 30 for months 4, 6, 9 and 11, and for February 29 when the stored
\* year is divisible by 4 and (not by 100 or by 400), else 28; so for years
\* 0..99 February has 29 days exactly when year % 4 = 0 (29 for year 0, 28
\* for year 1), and the other months do not depend on the year.
C5_DateRangeMaximum ==
    (call.op = "DS1302_get_date_range_maximum" /\ call.b \in 1..12)
    => /\ ret = Returned(CalendarDays(call.a, call.b))
       /\ (call.b = 2 /\ call.a \in 0..99) => ((ret.value = 29) <=> (call.a % 4 = 0))
       /\ (call.b = 2 /\ call.a = 0) => ret.value = 29
       /\ (call.b = 2 /\ call.a = 1) => ret.value = 28
       /\ call.b # 2 => ret = DS1302_get_date_range_maximum(0, call.b)

\* February of year 0 has 29 days.
C5_Witness ==
    /\ call.op = "DS1302_get_date_range_maximum"
    /\ call.a = 0
    /\ call.b = 2
    /\ ret = Returned(29)

\* The range table as documented, by field id.
TableMinimum == << 0, 0, 0, 1, 1, 1, 1, 0 >>
TableMaximum == << 59, 59, 23, 12, 7, 31, 12, 99 >>

\* C6: the range lookups return seconds [0,59], minutes [0,59], hours-24h
\* [0,23], hours-12h [1,12], weekday [1,7], month [1,12], year [0,99] and
\* minimum 1 for the date; wherever the maximum is defined the minimum is not
\* above it; a lookup changes no line, no register and nothing of the caller,
\* and makes no GPIO or delay call.
C6_RangeTable ==
    [][ /\ (call'.op = "DS1302_get_range_minimum" /\ call'.a \in RangedFields)
           => ret' = Returned(TableMinimum[call'.a + 1])
        /\ (/\ call'.op = "DS1302_get_range_maximum"
            /\ call'.a \in RangedFields \ {DS1302_DATE})
           => /\ ret' = Returned(TableMaximum[call'.a + 1])
              /\ DS1302_get_range_minimum(call'.a).returned
              /\ DS1302_get_range_minimum(call'.a).value <= ret'.value
        /\ call'.op \in {"DS1302_get_range_minimum", "DS1302_get_range_maximum"}
           => /\ UNCHANGED << lines, rtc, out >>
              /\ txlog' = << >>
              /\ gpio_calls' = 0 ]_vars

\* The 12-hour maximum looked up with the lines still unconfigured.
C6_Witness ==
    /\ call.op = "DS1302_get_range_maximum"
    /\ call.a = DS1302_HOURS_12H
    /\ ret = Returned(12)
    /\ gpio_calls = 0
    /\ lines.dir = "unconfigured"

\* C7: a contract violation takes the fatal path and yields no value --
\* DS1302_get_range_minimum with a type outside the eight ranged fields
\* (DS1302_FORMAT and DS1302_AM_PM included), DS1302_get_range_maximum with
\* such a type or with DS1302_DATE, DS1302_get_date_range_maximum with a
\* month outside 1..12.
C7_ContractViolationsAreFatal ==
    (\/ call.op = "DS1302_get_range_minimum" /\ call.a \notin RangedFields
     \/ /\ call.op = "DS1302_get_range_maximum"
        /\ (call.a \notin RangedFields \/ call.a = DS1302_DATE)
     \/ call.op = "DS1302_get_date_range_maximum" /\ call.b \notin 1..12)
    => /\ ret.fatal
       /\ ~ret.returned

\* The maximum of the date asked of the table.
C7_Witness ==
    /\ call.op = "DS1302_get_range_maximum"
    /\ call.a = DS1302_DATE
    /\ ret.fatal
    /\ ~ret.returned

-----------------------------------------------------------------------------
(* Properties of the public operations on the bus (Spec, SpecSetGet).      *)

InRange(d) ==
    /\ InFieldRange(DS1302_SECONDS, d.secs)
    /\ InFieldRange(DS1302_MINUTES, d.min)
    /\ InFieldRange(IF d.is_12h_mode THEN DS1302_HOURS_12H ELSE DS1302_HOURS_24H, d.hours)
    /\ InFieldRange(DS1302_WEEKDAY, d.weekday)
    /\ InFieldRange(DS1302_DATE, d.date)
    /\ InFieldRange(DS1302_MONTH, d.month)
    /\ InFieldRange(DS1302_YEAR, d.year)

\* C2: set then get through the device -- with write protection off, for
\* every in-range datetime d, DS1302_set(d) followed at once by
\* DS1302_get(out) gives out.year, month, date, weekday, hours, min, secs and
\* is_12h_mode equal to d's, and out.is_pm equal to d.is_pm when d is in
\* 12-hour mode; 11 o'clock, 12h, PM is in the hours register as 0xB1.
C2_SetThenGet ==
    [][ (/\ call.op = "DS1302_set"
         /\ ~call.null
         /\ InRange(call.config)
         /\ rtc[7] < 128
         /\ call'.op = "DS1302_get"
         /\ ~call'.null)
        => /\ out'.year = call.config.year
           /\ out'.month = call.config.month
           /\ out'.date = call.config.date
           /\ out'.weekday = call.config.weekday
           /\ out'.hours = call.config.hours
           /\ out'.min = call.config.min
           /\ out'.secs = call.config.secs
           /\ out'.is_12h_mode = call.config.is_12h_mode
           /\ call.config.is_12h_mode => out'.is_pm = call.config.is_pm
           /\ (/\ call.config.hours = 11
               /\ call.config.is_12h_mode
               /\ call.config.is_pm) => rtc[2] = 177 ]_vars

\* 11 o'clock, 12h, PM read back from a device that took it as 0xB1.
C2_Witness ==
    /\ call.op = "DS1302_get"
    /\ ~call.null
    /\ rtc[7] < 128
    /\ rtc[2] = 177
    /\ out.hours = 11
    /\ out.is_12h_mode
    /\ out.is_pm
    /\ out.secs = 59
    /\ out.year = 99

\* C8: a NULL aggregate is a no-op -- DS1302_set(NULL) and DS1302_get(NULL)
\* make no GPIO or delay call and no bus transaction, reach no fatal
\* assertion, return, and leave the lines and the device as they were.
C8_NullIsNoOp ==
    [][ (call'.op \in {"DS1302_set", "DS1302_get"} /\ call'.null)
        => /\ gpio_calls' = 0
           /\ txlog' = << >>
           /\ lines' = lines
           /\ rtc' = rtc
           /\ ret'.returned
           /\ ~ret'.fatal ]_vars

\* DS1302_set(NULL) on lines nobody configured yet.
C8_Witness ==
    /\ call.op = "DS1302_set"
    /\ call.null
    /\ ret.returned
    /\ gpio_calls = 0
    /\ txlog = << >>
    /\ lines.dir = "unconfigured"

\* The command bytes of the seven clock registers in the order year, month,
\* date, weekday, hours, minutes, seconds.
ReadOrder  == << 141, 137, 135, 139, 133, 131, 129 >>
WriteOrder == << 140, 136, 134, 138, 132, 130, 128 >>

\* C9: DS1302_get on a non-null aggregate makes exactly seven read
\* transactions in the order year, month, date, weekday, hours, minutes,
\* seconds, and DS1302_set exactly seven write transactions in that order,
\* seconds last; hour, 12h/24h flag and AM/PM flag travel in the one
\* hours-register transaction.
C9_TransactionOrder ==
    /\ (call.op = "DS1302_get" /\ ~call.null)
       => /\ Len(txlog) = 7
          /\ \A i \in 1..7 : txlog[i].kind = "read" /\ txlog[i].cmd = ReadOrder[i]
          /\ out.is_12h_mode <=> (txlog[5].data \div 128 = 1)
          /\ out.is_12h_mode => (out.is_pm <=> ((txlog[5].data \div 32) % 2 = 1))
          /\ out.hours = (txlog[5].data % 16)
                + ((txlog[5].data \div 16) % (IF out.is_12h_mode THEN 2 ELSE 4)) * 10
    /\ (call.op = "DS1302_set" /\ ~call.null)
       => /\ Len(txlog) = 7
          /\ \A i \in 1..7 : txlog[i].kind = "write" /\ txlog[i].cmd = WriteOrder[i]
          /\ txlog[5].data =
                (IF call.config.is_12h_mode THEN 128 ELSE 0)
                + (IF call.config.is_12h_mode /\ call.config.is_pm THEN 32 ELSE 0)
                + (call.config.hours \div 10) * 16 + (call.config.hours % 10)

\* DS1302_set of 11 o'clock, 12h, PM: seven writes, 0xB1 in the fifth, the
\* seconds in the seventh.
C9_Witness ==
    /\ call.op = "DS1302_set"
    /\ ~call.null
    /\ Len(txlog) = 7
    /\ txlog[5] = [kind |-> "write", cmd |-> 132, data |-> 177]
    /\ txlog[7].cmd = 128

\* C10: DS1302_set_write_protection makes exactly one write transaction, to
\* 0x8E, with data 0x80 when enabling and 0x00 when disabling, and no read.
C10_WriteProtection ==
    call.op = "DS1302_set_write_protection"
    => txlog = << [kind |-> "write", cmd |-> 142,
                   data |-> IF call.flag THEN 128 ELSE 0] >>

\* Write protection switched on, and the device holding 0x80 for it.
C10_Witness ==
    /\ call.op = "DS1302_set_write_protection"
    /\ call.flag
    /\ Len(txlog) = 1
    /\ txlog[1].data = 128
    /\ rtc[7] = 128

-----------------------------------------------------------------------------
(* Properties of the pin-assignment variant (SpecPins).                    *)

\* C11: DS1302_configure returns -1 exactly when its config pointer is NULL;
\* the failing call leaves the stored pin assignment as it was, configures and
\* writes no GPIO line, and is not fatal.
C11_ConfigureNull ==
    [][(call'.op = "DS1302_configure" /\ call'.variant = "pins") =>
           /\ (ret'.value = -1) <=> call'.null
           /\ call'.null =>
                  /\ pins' = pins
                  /\ wires' = wires
                  /\ run'.calls = << >>
                  /\ gpio_calls' = 0
                  /\ ret'.returned
                  /\ ~ret'.fatal]_vars

\* A NULL configure call after a successful one: the table is still filled.
C11_Witness ==
    /\ call.op = "DS1302_configure"
    /\ call.variant = "pins"
    /\ call.null
    /\ ret = Returned(-1)
    /\ pins # NoPins
    /\ run.calls = << >>

\* C12: a successful DS1302_configure copies the three (port, line) pairs of
\* the config into the pin table, leaves each of the three lines a push-pull
\* output driven low, and returns 0.
C12_ConfigureCopies ==
    (call.op = "DS1302_configure" /\ call.variant = "pins" /\ ~call.null) =>
        /\ pins = call.config.pins
        /\ \A i \in 0..2 :
               wires[call.config.pins[i]] = [dir |-> GPIO_OUTPUT_PUSH_PULL, level |-> 0]
        /\ Len(run.calls) = 6
        /\ ret = Returned(0)

\* A second configuration, with the roles on other lines than the first.
C12_Witness ==
    /\ call.op = "DS1302_configure"
    /\ call.variant = "pins"
    /\ ~call.null
    /\ pins[DS1302_CLK_IDX] = <<1, 1>>
    /\ wires[<<1, 1>>].level = 0
    /\ ret = Returned(0)

\* The index into the pin table of the line a call of the fixed-channel
\* transport addresses.
RoleIndex(ch) ==
    CASE ch = GPIO_CHANNEL_RTC_CE  -> DS1302_CE_IDX
      [] ch = GPIO_CHANNEL_RTC_CLK -> DS1302_CLK_IDX
      [] ch = GPIO_CHANNEL_RTC_IO  -> DS1302_IO_IDX

\* The calls of a write and of a read transaction of the fixed-channel
\* transport: every transaction uses the lines in this order.
WriteRoles == write(WRITE_SECONDS, 0)
ReadRoles  == read_calls(READ_SECONDS)

\* The calls are transactions on the lines table p assigns: call k is the call
\* roles has there, on the line of p with the same role.
OnAssignedLines(calls, p, roles) ==
    \A k \in 1..Len(calls) :
        /\ calls[k].fn = roles[((k - 1) % Len(roles)) + 1].fn
        /\ roles[((k - 1) % Len(roles)) + 1].ch # "-" =>
               calls[k].ch = p[RoleIndex(roles[((k - 1) % Len(roles)) + 1].ch)]

\* C13: every GPIO call of a transaction goes to a line of the pin table as
\* the last successful DS1302_configure left it: chip-enable calls to the CE
\* pair, clock calls to the CLK pair, data calls to the IO pair; a transaction
\* does not change the table.
C13_TransactionsUseConfiguredPins ==
    [][(call'.variant = "pins" /\ call'.op # "DS1302_configure") =>
           /\ pins' = pins
           /\ Len(run'.calls) % Len(WriteRoles) = 0
           /\ OnAssignedLines(run'.calls, pins,
                              IF call'.op \in {"DS1302_set", "DS1302_set_write_protection"}
                              THEN WriteRoles ELSE ReadRoles)]_vars

\* DS1302_set on the second assignment: three write transactions.
C13_Witness ==
    /\ call.op = "DS1302_set"
    /\ call.variant = "pins"
    /\ ~call.null
    /\ pins[DS1302_CE_IDX] = <<1, 0>>
    /\ Len(run.calls) = 3 * 87
    /\ wires[<<1, 0>>].level = 0

-----------------------------------------------------------------------------
(* Properties of the byte transport.                                       *)

\* C14: write_byte and read_byte use the same bit order: the eight bits
\* write_byte(b) presents at its eight rising clock edges, fed to read_byte as
\* its eight samples, make read_byte return b, for every byte b.
C14_BitOrderLoopback ==
    call.op = "write_byte>read_byte" =>
        /\ call.b = CHAR_BIT
        /\ ret = Returned(call.a)

\* A byte that is not its own mirror image, looped back.
C14_Witness ==
    /\ call.op = "write_byte>read_byte"
    /\ call.a = 83
    /\ ret.value = 83

\* C15: after DS1302_get on a non-null aggregate every field it has filled
\* lies within the field's declared range, whatever bytes the registers hold.
C15_GetFieldsInRange ==
    (call.op = "DS1302_get" /\ ~call.null /\ ret.returned) => InRange(out)

\* The read and write command of each register: the seven clock registers in
\* the order DS1302_get and DS1302_set go through them, then write protection.
RegisterCommands ==
    << [read |-> READ_YEAR,    write |-> WRITE_YEAR],
       [read |-> READ_MONTH,   write |-> WRITE_MONTH],
       [read |-> READ_DATE,    write |-> WRITE_DATE],
       [read |-> READ_WEEKDAY, write |-> WRITE_WEEKDAY],
       [read |-> READ_HOURS,   write |-> WRITE_HOURS],
       [read |-> READ_MINUTES, write |-> WRITE_MINUTES],
       [read |-> READ_SECONDS, write |-> WRITE_SECONDS],
       [read |-> READ_WP,      write |-> WRITE_WP] >>

\* The commands on the bus are the reads (writes) of the registers numbered
\* regs in RegisterCommands, one transaction each.
Addresses(regs, kind) ==
    /\ Len(txlog) = Len(regs)
    /\ \A i \in 1..Len(regs) :
           /\ txlog[i].kind = kind
           /\ txlog[i].cmd = IF kind = "read" THEN RegisterCommands[regs[i]].read
                             ELSE RegisterCommands[regs[i]].write

\* C18: for each of the eight registers the read command is odd, the write
\* command even and one less; every command is 1000xxxR with xxx different
\* from register to register; every read transaction on the bus carries an odd
\* command and every write transaction an even one, that of the register of
\* the field transferred.
C18_CommandBytes ==
    /\ \A i \in 1..8 :
           /\ RegisterCommands[i].read % 2 = 1
           /\ RegisterCommands[i].write % 2 = 0
           /\ RegisterCommands[i].read = RegisterCommands[i].write + 1
           /\ RegisterCommands[i].read \div 16 = 8
           /\ RegisterCommands[i].write \div 16 = 8
    /\ \A i, j \in 1..8 :
           i # j => (RegisterCommands[i].write \div 2) % 8
                        # (RegisterCommands[j].write \div 2) % 8
    /\ \A k \in 1..Len(txlog) :
           /\ txlog[k].kind = "read" => txlog[k].cmd % 2 = 1
           /\ txlog[k].kind = "write" => txlog[k].cmd % 2 = 0
    /\ (call.op = "DS1302_get" /\ ~call.null) => Addresses(<<1, 2, 3, 4, 5, 6, 7>>, "read")
    /\ (call.op = "DS1302_set" /\ ~call.null /\ ret.returned)
           => Addresses(<<1, 2, 3, 4, 5, 6, 7>>, "write")
    /\ call.op = "DS1302_get_seconds" => Addresses(<<7>>, "read")
    /\ call.op = "DS1302_get_minutes" => Addresses(<<6>>, "read")
    /\ call.op = "DS1302_get_hours" => Addresses(<<5>>, "read")
    /\ call.op = "DS1302_set_write_protection" => Addresses(<<8>>, "write")

\* DS1302_get_minutes: one read, command 0x83.
C18_Witness ==
    /\ call.op = "DS1302_get_minutes"
    /\ Len(txlog) = 1
    /\ txlog[1].kind = "read"
    /\ txlog[1].cmd = 131

\* The hours a register byte stands for under a tens mask of one bit (0x10)
\* or of two bits (0x30).
HoursUnder(tens_bits, b) == (b % 16) + ((b \div 16) % (2 ^ tens_bits)) * 10

\* C17: DS1302_get_seconds, DS1302_get_minutes and DS1302_get_hours each make
\* exactly one read transaction (0x81, 0x83, 0x85) and no write;
\* DS1302_get_hours decodes with tens mask 0x10 when asked for 12-hour mode and
\* 0x30 otherwise, and on every hours byte whose bit 7 equals its argument it
\* returns the hours DS1302_get has just produced from the same byte.
C17_SingleRegisterGetters ==
    [][/\ call'.op = "DS1302_get_seconds" =>
              txlog' = << [kind |-> "read", cmd |-> 129, data |-> rtc[0]] >>
       /\ call'.op = "DS1302_get_minutes" =>
              txlog' = << [kind |-> "read", cmd |-> 131, data |-> rtc[1]] >>
       /\ call'.op = "DS1302_get_hours" =>
              /\ txlog' = << [kind |-> "read", cmd |-> 133, data |-> rtc[2]] >>
              /\ ret' = Returned(HoursUnder(IF call'.flag THEN 1 ELSE 2, rtc[2]))
              /\ rtc' = rtc
       /\ (/\ call.op = "DS1302_get"
           /\ ~call.null
           /\ call'.op = "DS1302_get_hours"
           /\ call'.flag <=> (rtc[2] >= 128))
          => ret'.value = out.hours]_vars

\* DS1302_get_hours(true) on 0xB1: one read, 11 returned.
C17_Witness ==
    /\ call.op = "DS1302_get_hours"
    /\ call.flag
    /\ rtc[2] = 177
    /\ ret.value = 11
    /\ Len(txlog) = 1

\* The step makes call number run'.at of the transaction under way.
Makes(c) ==
    /\ run'.calls = run.calls
    /\ run'.at = run.at + 1
    /\ run.calls[run'.at] = c

MakesDataWrite ==
    \E level \in 0..1 : Makes(GPIO_write_pin(GPIO_CHANNEL_RTC_IO, level))

\* C19 as stated: within write_byte the data line is set, and changes level,
\* only while the clock line is low.
C19_DataSetWhileClockLow ==
    [][/\ MakesDataWrite => lines.clk = 0
       /\ lines'.io # lines.io => lines.clk = 0]_vars

\* C19 as the code has it: for each bit write_byte sets the data line, then
\* lowers the clock, waits, raises the clock and waits, so the data line is
\* set while the clock is still high from the bit before (low only for the
\* first bit of the command byte, after reset); the data line changes at no
\* other call, and at every rising clock edge of write_byte it holds the bit
\* set three calls earlier.
C19_DataSetBeforeClockLowered ==
    [][/\ MakesDataWrite =>
              /\ run.calls[run'.at + 1] = GPIO_write_pin(GPIO_CHANNEL_RTC_CLK, 0)
              /\ run.calls[run'.at + 2] = delay_us(CLK_DELAY)
              /\ run.calls[run'.at + 3] = GPIO_write_pin(GPIO_CHANNEL_RTC_CLK, 1)
              /\ run.calls[run'.at + 4] = delay_us(CLK_DELAY)
              /\ lines.clk = (IF run'.at = Len(reset) + 2 THEN 0 ELSE 1)
       /\ lines'.io # lines.io => MakesDataWrite
       /\ (lines.dir = GPIO_OUTPUT_PUSH_PULL /\ lines.clk = 0 /\ lines'.clk = 1) =>
              run.calls[run'.at - 3] = GPIO_write_pin(GPIO_CHANNEL_RTC_IO, lines.io)]_vars

\* The data line just set to 1 for a later bit of the data byte of a write,
\* the clock still high.
C19_Witness ==
    /\ call.op = "write"
    /\ run.at > Len(start(0))
    /\ run.at < Len(run.calls)
    /\ run.calls[run.at] = GPIO_write_pin(GPIO_CHANNEL_RTC_IO, 1)
    /\ lines.io = 1
    /\ lines.clk = 1

-----------------------------------------------------------------------------
(* Properties of DS1302_get on a running clock (SpecTick).                 *)

\* The aggregate DS1302_get decodes from the register file regs.
ClockOf(config, regs) ==
    DS1302_get_config(config, [i \in 1..7 |-> regs[(ReadOrder[i] \div 2) % 8]])

\* The registers as DS1302_get met them: those read before the tick as they
\* were before it, the others as they are.
RegistersMet ==
    [a \in 0..7 |->
        IF tick.came /\ (\E i \in 1..tick.at : (ReadOrder[i] \div 2) % 8 = a)
        THEN tick.regs[a] ELSE rtc[a]]

\* C16: DS1302_get reads the seven registers in seven separate single-register
\* transactions and never with a burst command (0xBF), so when the device
\* steps to the next second between two of them the aggregate holds the fields
\* read before the tick as they were before it and the others as they are
\* after it; such an aggregate can differ from both the datetime before the
\* tick and the datetime after it.
C16_GetIsNotAtomic ==
    (call.op = "DS1302_get" /\ ~call.null /\ ret.returned) =>
        /\ Len(txlog) = 7
        /\ \A i \in 1..7 :
               /\ txlog[i].kind = "read"
               /\ txlog[i].cmd = ReadOrder[i]
               /\ txlog[i].cmd # 191
        /\ out = ClockOf(call.config, RegistersMet)

\* A tick from 10:20:59 to 10:21:00 between the read of the minutes and the
\* read of the seconds: DS1302_get returns 10:20:00.
C16_Witness ==
    /\ call.op = "DS1302_get"
    /\ ~call.null
    /\ ret.returned
    /\ tick.came
    /\ tick.at = 6
    /\ out # ClockOf(call.config, tick.regs)
    /\ out # ClockOf(call.config, rtc)
    /\ out.min = 20
    /\ out.secs = 0

-----------------------------------------------------------------------------
(* Properties of write_byte and read_byte on their own (SpecCodec).        *)

\* Bit i of the byte b.
BitOf(b, i) == (b \div (2 ^ i)) % 2

\* C21: write_byte(b) shifts out least-significant bit first -- it makes
\* exactly eight rising clock edges, the data line at the i-th of them
\* (i = 0..7) is at the level of bit i of b, for every byte b, and the data
\* line is a push-pull output before the first bit is driven (and at every
\* write to it), whatever the lines were before.
C21_WriteByteLsbFirst ==
    call.op = "write_byte" =>
        \A l0 \in InitLines :
            /\ Len(Rises(run.calls, GPIO_CHANNEL_RTC_CLK, 0, Len(run.calls) + 1, l0.clk)) = 8
            /\ \A i \in 0..7 :
                   SampledBit(run.calls,
                              Rises(run.calls, GPIO_CHANNEL_RTC_CLK, 0,
                                    Len(run.calls) + 1, l0.clk)[i + 1].at,
                              l0) = BitOf(call.a, i)
            /\ \A k \in 1..Len(run.calls) :
                   (run.calls[k].fn = "GPIO_write_pin"
                    /\ run.calls[k].ch = GPIO_CHANNEL_RTC_IO)
                   => LastConfig(run.calls, k - 1, GPIO_CHANNEL_RTC_IO, l0.dir)
                          = GPIO_OUTPUT_PUSH_PULL

\* write_byte(0x53) made: 41 calls, the data line left at bit 7, which is 0.
C21_Witness ==
    /\ call.op = "write_byte"
    /\ call.a = 83
    /\ Len(run.calls) = 41
    /\ lines.io = 0
    /\ lines.clk = 1
    /\ lines.dir = GPIO_OUTPUT_PUSH_PULL

\* C22: read_byte assembles least-significant bit first -- it samples the
\* data line exactly eight times and returns the byte whose bit i (i = 0..7)
\* is the i-th sample, for each of the 256 sample sequences, whatever the
\* lines and the device held before.
C22_ReadByteLsbFirst ==
    call.op = "read_byte" =>
        /\ Len(SelectSeq(run.calls, LAMBDA c : c.fn = "GPIO_read_pin")) = 8
        /\ \A k \in 1..Len(run.calls) :
               run.calls[k].fn = "GPIO_read_pin" =>
                   run.calls[k].ch = GPIO_CHANNEL_RTC_IO
        /\ ret.returned
        /\ ret.value \in Byte
        /\ \A i \in 0..7 : BitOf(ret.value, i) = BitOf(call.a, i)

\* Samples 1, 1, 0, 0, 1, 0, 1, 0 in this order: 0x53 returned, on a device
\* whose registers are all 0xFF.
C22_Witness ==
    /\ call.op = "read_byte"
    /\ call.a = 83
    /\ ret.value = 83
    /\ rtc[0] = 255
    /\ lines.dir = GPIO_INPUT_FLOATING

-----------------------------------------------------------------------------
(* Properties of a transaction, GPIO call by GPIO call (SpecBus).          *)

\* The calls among calls[from..to] that write the level to the channel.
WritesOf(calls, from, to, ch, level) ==
    {k \in from..to : calls[k] = GPIO_write_pin(ch, level)}

\* C23: every register read and write transaction first drives chip-enable
\* low and the clock low, then chip-enable high, then transfers the command
\* byte and one data byte, sixteen bit cells in all, then drives chip-enable
\* low; chip-enable is not written between its rise and its fall, so it is
\* high from the first command bit to the last data bit, and no call of
\* another transaction comes between the rise and the fall.
C23_TransactionFraming ==
    [][call'.op \in {"write", "read"} =>
           /\ SubSeq(run'.calls, 1, 3) = << GPIO_write_pin(GPIO_CHANNEL_RTC_CE, 0),
                                            GPIO_write_pin(GPIO_CHANNEL_RTC_CLK, 0),
                                            GPIO_write_pin(GPIO_CHANNEL_RTC_CE, 1) >>
           /\ run'.calls[Len(run'.calls) - 1] = GPIO_write_pin(GPIO_CHANNEL_RTC_CE, 0)
           /\ \A k \in 4..(Len(run'.calls) - 2) :
                  run'.calls[k].ch # GPIO_CHANNEL_RTC_CE
           /\ Cardinality(WritesOf(run'.calls, 4, Len(run'.calls) - 2,
                                   GPIO_CHANNEL_RTC_CLK, 1)) = 16
           /\ Cardinality(WritesOf(run'.calls, 4, Len(run'.calls) - 2,
                                   GPIO_CHANNEL_RTC_CLK, 0)) = 16
           /\ (run'.at >= 3 /\ run'.at < Len(run'.calls) - 1) <=> (lines'.ce = 1 /\ run'.at > 0)
           /\ (lines.ce = 1 /\ call.op # "none") => (call' = call /\ run'.calls = run.calls)]_vars

\* The eighth bit of the data byte of a write just clocked in: chip-enable
\* still high, its fall the next call.
C23_Witness ==
    /\ call.op = "write"
    /\ run.at = Len(run.calls) - 2
    /\ lines.ce = 1
    /\ lines.clk = 1
    /\ run.calls[run.at + 1] = GPIO_write_pin(GPIO_CHANNEL_RTC_CE, 0)

-----------------------------------------------------------------------------
(* Properties of the public operations as they leave the bus (Spec).       *)

\* C24: whenever a public operation that made at least one transaction has
\* returned, after any sequence of operations, chip-enable is low and the
\* clock is low; between operations chip-enable is high only as long as no
\* transaction has been made at all (the level the line had at power-up).
C24_IdleBetweenOperations ==
    /\ (ret.returned /\ gpio_calls > 0) => (lines.ce = 0 /\ lines.clk = 0)
    /\ lines.ce = 1 => (gpio_calls = 0 /\ txlog = << >> /\ lines \in InitLines)

\* DS1302_get returned after its seven transactions, the data line still an
\* input, chip-enable and clock low.
C24_Witness ==
    /\ call.op = "DS1302_get"
    /\ ~call.null
    /\ ret.returned
    /\ Len(txlog) = 7
    /\ lines.dir = GPIO_INPUT_FLOATING
    /\ lines.ce = 0
    /\ lines.clk = 0

\* The transactions an operation makes: seven for DS1302_get and DS1302_set on
\* an aggregate, one for a single-field getter and for
\* DS1302_set_write_protection, none otherwise.
TransactionsOf(c) ==
    IF c.op \in {"DS1302_get", "DS1302_set"} THEN (IF c.null THEN 0 ELSE 7)
    ELSE IF c.op \in {"DS1302_get_seconds", "DS1302_get_minutes", "DS1302_get_hours",
                      "DS1302_set_write_protection"} THEN 1
    ELSE 0

\* C25: every public operation ends after a fixed number of bit cells,
\* whatever levels it reads on the data line -- each transaction is 87 GPIO
\* and delay calls (3 of reset, 2 line configurations, 16 bit cells of 5
\* calls, 2 of stop), DS1302_get and DS1302_set make exactly seven
\* transactions, the single-field getters and DS1302_set_write_protection
\* exactly one, and the bus is idle afterwards.
C25_FixedLength ==
    call.op # "none" =>
        /\ ret.returned
        /\ Len(txlog) = TransactionsOf(call)
        /\ gpio_calls = TransactionsOf(call) * (3 + 2 + 16 * 5 + 2)
        /\ TransactionsOf(call) > 0 => (lines.ce = 0 /\ lines.clk = 0)

\* DS1302_get_seconds on a device whose registers are all 0xFF: one
\* transaction, 87 calls, every sample high.
C25_Witness ==
    /\ call.op = "DS1302_get_seconds"
    /\ rtc[0] = 255
    /\ ret.returned
    /\ Len(txlog) = 1
    /\ txlog[1].data = 255
    /\ gpio_calls = 87

\* C26: the driver writes a level to the data line only while it has the line
\* configured as push-pull output and samples it only while it has it
\* configured as floating input; in a read transaction the line is made an
\* input after the eighth rising clock edge of the command byte and before the
\* next falling edge (the clock is still high), and it stays an input until
\* chip-enable has been driven low: it is made an output again only by the
\* first line configuration of the next transaction.
C26_DataLineDirection ==
    [][/\ MakesDataWrite => lines.dir = GPIO_OUTPUT_PUSH_PULL
       /\ Makes(GPIO_read_pin(GPIO_CHANNEL_RTC_IO)) => lines.dir = GPIO_INPUT_FLOATING
       /\ Makes(GPIO_config_pin(GPIO_CHANNEL_RTC_IO, GPIO_INPUT_FLOATING)) =>
              /\ call.op = "read"
              /\ lines.ce = 1
              /\ lines.clk = 1
              /\ Len(Rises(run.calls, GPIO_CHANNEL_RTC_CLK, 0, run'.at, 0)) = 8
              /\ Len(Falls(run.calls, GPIO_CHANNEL_RTC_CLK, 0, run'.at, 0)) = 7
       /\ (lines.dir = GPIO_INPUT_FLOATING /\ lines'.dir # GPIO_INPUT_FLOATING) =>
              /\ run'.at = Len(reset) + 1
              /\ run.calls[1] = GPIO_write_pin(GPIO_CHANNEL_RTC_CE, 0)]_vars

\* The data line just made an input in a read, after the command byte, the
\* clock still high.
C26_Witness ==
    /\ call.op = "read"
    /\ run.at = Len(start(0)) + 1
    /\ run.calls[run.at] = GPIO_config_pin(GPIO_CHANNEL_RTC_IO, GPIO_INPUT_FLOATING)
    /\ lines.dir = GPIO_INPUT_FLOATING
    /\ lines.clk = 1
    /\ lines.ce = 1

-----------------------------------------------------------------------------
(* Properties of the bytes DS1302_set writes (SpecSetAny).                 *)

\* The bits of each calendar register's layout, in the order DS1302_set
\* writes the registers: year, month, date, weekday, hours, minutes, seconds.
LayoutBits == << 255, 31, 63, 7, 191, 127, 127 >>

\* C27: for every aggregate, field values outside their ranges included,
\* each byte DS1302_set writes to a calendar register has no bit set outside
\* the field's layout (tens mask | 0x0F; 0x07 for the weekday; 0x80 | 0x20 |
\* 0x1F for the hours); bit 7 of the byte written to the seconds register, the
\* clock-halt bit, is always 0.
C27_WrittenBytesWithinLayout ==
    (call.op = "DS1302_set" /\ ~call.null) =>
        /\ Len(txlog) = 7
        /\ \A i \in 1..7 :
               /\ txlog[i].kind = "write"
               /\ txlog[i].data \in Byte
               /\ BitAnd(txlog[i].data, 255 - LayoutBits[i]) = 0
        /\ txlog[7].cmd = 128
        /\ txlog[7].data < 128

\* DS1302_set with 255 in every field, 12-hour mode, PM: 0x15 goes to the
\* seconds register and 0xB5 to the hours register.
C27_Witness ==
    /\ call.op = "DS1302_set"
    /\ ~call.null
    /\ call.config.secs = 255
    /\ call.config.is_12h_mode
    /\ call.config.is_pm
    /\ txlog[7].data = 21
    /\ txlog[5].data = 181

\* C28: for every aggregate and any hours value 0..255, bit 7 of the byte
\* DS1302_set writes to the hours register equals is_12h_mode; in 12-hour mode
\* bit 5 equals is_pm and the hour digits take bits 0-4 only; in 24-hour mode
\* bit 7 is 0 and the byte is the same whatever is_pm is.
C28_HoursByteFlags ==
    (call.op = "DS1302_set" /\ ~call.null) =>
        /\ txlog[5].cmd = 132
        /\ BitOf(txlog[5].data, 7) = BoolToInt(call.config.is_12h_mode)
        /\ call.config.is_12h_mode =>
               /\ BitOf(txlog[5].data, 5) = BoolToInt(call.config.is_pm)
               /\ BitOf(txlog[5].data, 6) = 0
               /\ txlog[5].data % 32 =
                      (call.config.hours % 10) + ((call.config.hours \div 10) % 2) * 16
        /\ ~call.config.is_12h_mode =>
               txlog[5].data =
                   (call.config.hours % 10) + ((call.config.hours \div 10) % 4) * 16

\* DS1302_set of hours 23 in 24-hour mode with is_pm set: 0x23 is written.
C28_Witness ==
    /\ call.op = "DS1302_set"
    /\ ~call.null
    /\ call.config.hours = 23
    /\ ~call.config.is_12h_mode
    /\ call.config.is_pm
    /\ txlog[5].data = 35

-----------------------------------------------------------------------------
(* Properties of DS1302_get on any hours byte (SpecGetters).               *)

\* C29: when the hours byte DS1302_get reads has bit 7 clear, DS1302_get sets
\* is_12h_mode to false and leaves the caller's is_pm as it was; is_pm is
\* assigned, from bit 5, only when bit 7 is set.
C29_IsPmOnlyIn12hMode ==
    (call.op = "DS1302_get" /\ ~call.null) =>
        /\ txlog[5] = [kind |-> "read", cmd |-> 133, data |-> rtc[2]]
        /\ out.is_12h_mode <=> (BitOf(rtc[2], 7) = 1)
        /\ BitOf(rtc[2], 7) = 0 => (out.is_pm <=> call.config.is_pm)
        /\ BitOf(rtc[2], 7) = 1 => (out.is_pm <=> (BitOf(rtc[2], 5) = 1))

\* The hours register holds 0x23 (24-hour mode, bit 5 set) and the caller's
\* is_pm was false: it still is.
C29_Witness ==
    /\ call.op = "DS1302_get"
    /\ ~call.null
    /\ rtc[2] = 35
    /\ ~call.config.is_pm
    /\ ~out.is_pm
    /\ ~out.is_12h_mode
    /\ out.hours = 23

-----------------------------------------------------------------------------
(* Properties of the write-protect register in any sequence of operations  *)
(* (Spec).                                                                 *)

\* C30: only DS1302_set_write_protection makes a transaction on the
\* write-protect register (0x8E, 0x8F) -- DS1302_set, DS1302_get and the
\* single-field getters neither read nor write it, so the register keeps its
\* value across them, and after DS1302_set_write_protection it holds the value
\* of that call: in any sequence of operations the last value written is that
\* of the most recent DS1302_set_write_protection.
C30_OnlySetWriteProtectionAddressesWp ==
    [][/\ call'.op # "DS1302_set_write_protection" =>
              /\ \A k \in 1..Len(txlog') : txlog'[k].cmd \notin {142, 143}
              /\ rtc'[7] = rtc[7]
       /\ call'.op = "DS1302_set_write_protection" =>
              /\ Len(txlog') = 1
              /\ txlog'[1].cmd = 142
              /\ rtc'[7] = (IF call'.flag THEN 128 ELSE 0)]_vars

\* DS1302_set on a protected device after DS1302_set_write_protection(true):
\* seven writes, none of them to 0x8E, the register still 0x80.
C30_Witness ==
    /\ call.op = "DS1302_set"
    /\ ~call.null
    /\ Len(txlog) = 7
    /\ \A k \in 1..7 : txlog[k].cmd # 142
    /\ rtc[7] = 128

-----------------------------------------------------------------------------
(* Properties of the pin-assignment variant's codec (SpecCodec).           *)

\* C31: in the pin-assignment variant the weekday round-trips -- for every
\* weekday v in 1..7 the byte get_value_to_store(DS1302_WEEKDAY, v) gives is
\* v masked with 0x07, and get_value_to_load(DS1302_WEEKDAY, ...) of that
\* byte is v.
C31_WeekdayRoundTripsPins ==
    (/\ call.op = "get_value_to_store>get_value_to_load"
     /\ call.variant = "pins"
     /\ call.a \in 1..7)
    => /\ call.b = call.a % 8
       /\ ret.value = call.a

=============================================================================
